---- MODULE Spec2Model ----
(***************************************************************************)
(* Model of the Delica parts scraper: the resumable crawl of               *)
(* scraper/src/scraper/index.ts (class Scraper), the CLI commands of       *)
(* scraper/src/main.ts that start it, the "fix shared parts" script and    *)
(* the replacement merge, over the store of scraper/src/db/schema.ts; the  *)
(* rate-limited fetcher; and the parsers of scraper/src/scraper/parser.ts  *)
(* on the cells of a parts table and the headings of a listing page.       *)
(*                                                                         *)
(* Text is modelled as a sequence of character codes, so that joining,     *)
(* substring tests, LIKE prefixes and ORDER BY are computed and not        *)
(* looked up: 0 is "-", 1 is "/", 2..3 are digits, 4 and up are letters    *)
(* (the order of the codes is the order of the ASCII characters).          *)
(* A URL is the list of its path segments (URL.pathname split on "/").     *)
(***************************************************************************)
EXTENDS Integers, Sequences, FiniteSets, TLC

\* null for a text column or an absent string; row ids start at 1, so 0 is
\* null for an id column.
NoText == <<>>

\* ---------------------------------------------------------------- bounds
\* The number of times the process may be killed in one behaviour.
MaxCrashes == 2
\* The number of fetches that may fail in one behaviour.
MaxFailures == 1

\* ------------------------------------------------------------------ text
Sep == <<1>>

Join(a, b) == a \o Sep \o b

IsDigit(c) == c \in {2, 3}

\* /^\d+$/ on one path segment (the detail ids of this model have no comma).
IsNumeric(seg) == Len(seg) > 0 /\ \A i \in 1..Len(seg) : IsDigit(seg[i])

RECURSIVE Flat(_)
\* The path of a URL as text: "/" before every segment.
Flat(parts) == IF parts = <<>> THEN <<>> ELSE Sep \o Head(parts) \o Flat(Tail(parts))

\* String.prototype.includes
Includes(hay, needle) ==
    \E i \in 0..(Len(hay) - Len(needle)) :
        \A k \in 1..Len(needle) : hay[i + k] = needle[k]

\* SQL: x LIKE p || '%'
LikePrefix(x, p) == Len(p) <= Len(x) /\ SubSeq(x, 1, Len(p)) = p

\* SQL: ORDER BY of two texts (BINARY collation): a sorts strictly before b.
TextLess(a, b) ==
    \/ /\ Len(a) < Len(b)
       /\ SubSeq(b, 1, Len(a)) = a
    \/ \E i \in 1..Len(a) :
          /\ i <= Len(b)
          /\ a[i] < b[i]
          /\ \A k \in 1..(i - 1) : a[k] = b[k]

RECURSIVE Dedup(_)
\* Keeps the first occurrence of every element, in order (the "seen" sets).
Dedup(s) ==
    IF s = <<>> THEN <<>>
    ELSE LET r == Dedup(SubSeq(s, 1, Len(s) - 1))
             x == s[Len(s)]
         IN IF \E i \in 1..Len(r) : r[i] = x THEN r ELSE Append(r, x)

Range(s) == {s[i] : i \in 1..Len(s)}

\* ------------------------------------------------------------------ site
\* The pages of the source site, as the parsers see them. A page is
\*   table    : a table.top_cars is present            (hasPartsTable)
\*   picture  : an img.parts_picture is present
\*   cats     : the "#partnames li" entries            (parseIndexPage)
\*   hrefs    : the href of every a element, in page order (the pages have
\*              no area element outside their sections)
\*   sections : the headed td.detail-list cells, each with its heading's
\*              slug, whether it has a diagram image, and the detail ids of
\*              its links in order
\*   parts    : the records found around the OEM anchors of the table, each
\*              with its part number, its other cells (data) and the part
\*              number of the row it is stacked on as a replacement
\* config.baseUrl = https://.../delica_space_gear/<frame>/<trim>/
BaseUrl == << <<4>>, <<5>>, <<6>> >>

GroupSlug == <<7>>
SubgroupSlug == <<8>>
SingleSlug == <<9>>
Detail1 == <<2>>
Detail2 == <<3>>
Detail3 == <<2, 3>>
SlugA == <<4>>
SlugB == <<5>>

IndexUrl == BaseUrl
CatUrl == BaseUrl \o <<GroupSlug>>
ListUrl == BaseUrl \o <<GroupSlug, SubgroupSlug>>
Det1Url == ListUrl \o <<Detail1>>
Det2Url == ListUrl \o <<Detail2>>
SingleUrl == BaseUrl \o <<GroupSlug, SingleSlug>>
\* A page with nothing the parsers recognise.
JunkUrl == SingleUrl \o <<Detail3>>
\* A listing page whose one section has no picture; its link leads to a detail
\* page of the other listing.
BareUrl == BaseUrl \o <<GroupSlug, GroupSlug>>
\* A listing page of another group, with two sections that share a detail
\* id; the index page of another frame of the site links to it, no page
\* found from IndexUrl does.
OtherUrl == BaseUrl \o <<SingleSlug, SubgroupSlug>>
\* The detail page that listing links to: a parts table without a part.
GapUrl == OtherUrl \o <<Detail3>>
\* A listing page without a headed section.
EmptyListUrl == BaseUrl \o <<SingleSlug, SingleSlug>>
\* A detail page of the first group with the detail id of the other group's
\* listing.
CrossUrl == ListUrl \o <<Detail3>>

EmptyPage == [table |-> FALSE, picture |-> FALSE, cats |-> <<>>, hrefs |-> <<>>, sections |-> <<>>, parts |-> <<>>]

Urls == {IndexUrl, CatUrl, ListUrl, Det1Url, Det2Url, SingleUrl, JunkUrl, BareUrl, OtherUrl,
         GapUrl, EmptyListUrl, CrossUrl}

Site(url) ==
    CASE url = IndexUrl ->
           [EmptyPage EXCEPT !.cats = << [id |-> GroupSlug, name |-> "11 - Engine", url |-> CatUrl] >>,
                             !.hrefs = <<CatUrl>>]
      [] url = CatUrl ->
           [EmptyPage EXCEPT !.hrefs = <<ListUrl, SingleUrl, ListUrl, BareUrl>>]
      [] url = SingleUrl ->
           [EmptyPage EXCEPT
              !.hrefs = <<JunkUrl>>,
              !.sections = << [slug |-> SlugA, image |-> TRUE, ids |-> <<Detail3>>] >>]
      [] url = BareUrl ->
           [EmptyPage EXCEPT
              !.hrefs = <<Det1Url>>,
              !.sections = << [slug |-> SlugA, image |-> FALSE, ids |-> <<Detail1>>] >>]
      [] url = OtherUrl ->
           [EmptyPage EXCEPT
              !.hrefs = <<GapUrl>>,
              !.sections = << [slug |-> SlugA, image |-> TRUE, ids |-> <<Detail3>>],
                              [slug |-> SlugB, image |-> TRUE, ids |-> <<Detail3>>] >>]
      [] url = ListUrl ->
           [EmptyPage EXCEPT
              !.hrefs = <<Det1Url, Det2Url, Det2Url>>,
              !.sections = << [slug |-> SlugB, image |-> TRUE, ids |-> <<Detail1, Detail2>>],
                              [slug |-> SlugA, image |-> TRUE, ids |-> <<Detail2, Detail2>>],
                              [slug |-> SingleSlug, image |-> FALSE, ids |-> <<Detail1>>] >>]
      [] url = GapUrl ->
           [EmptyPage EXCEPT !.table = TRUE, !.hrefs = <<EmptyListUrl>>]
      [] url = EmptyListUrl ->
           [EmptyPage EXCEPT !.hrefs = <<GapUrl, CrossUrl>>]
      [] url = CrossUrl ->
           [EmptyPage EXCEPT
              !.table = TRUE,
              !.parts = << [partNumber |-> "MD300003", data |-> "nut", replaces |-> ""] >>]
      [] url = Det1Url ->
           [EmptyPage EXCEPT
              !.table = TRUE,
              !.picture = TRUE,
              !.hrefs = <<ListUrl>>,
              !.parts = << [partNumber |-> "MD100001", data |-> "bolt", replaces |-> ""] >>]
      [] url = Det2Url ->
           [EmptyPage EXCEPT
              !.table = TRUE,
              !.parts = << [partNumber |-> "MD100001", data |-> "bolt", replaces |-> ""],
                           [partNumber |-> "MD200002", data |-> "seal", replaces |-> ""],
                           [partNumber |-> "MD999999", data |-> "seal", replaces |-> "MD200002"] >>]
      [] OTHER -> EmptyPage

\* ----------------------------------------------------------------- store
VARIABLES
    progress,        \* scrape_progress rows [url, status, error], in insertion order
    groups,          \* groups rows [id, name]
    subgroups,       \* subgroups rows [id, group_id, path]
    diagrams,        \* diagrams rows [id, group_id, subgroup_id, image, image_path, source_url]
    parts,           \* parts rows, in insertion order
    nextPartId,      \* parts.id AUTOINCREMENT
    pc,              \* where the running process is; "idle" when none runs
    urlQueue,        \* Scraper.urlQueue
    diagramGroupMap, \* Scraper.diagramGroupMap
    cur,             \* the url taken from the queue (processQueue's local)
    idx,             \* the position of the loop the process is in
    crashes,         \* how often the process was killed
    failures,        \* how many fetches failed
    lastFetch,       \* the url fetched by the last step, <<>> when it fetched nothing
    runQueued,       \* every url put in urlQueue since run() started, in order
    runFrom,         \* for every entry of runQueued, the page it was found on
    runFetched,      \* every url fetched since run() started, in order
    runStart,        \* the pending, completed and failed urls when run() started
    repair,          \* whether the repair pass ran last, the paths it fetched, where it is
    fetcher,         \* the RateLimitedFetcher of the process
    parse,           \* the parser call in hand: its arguments and what it returned
    schema,          \* the tables and columns of the database file, and the legacy rows
    tui              \* the part-detail screen of the TUI and the note it stores

store == <<progress, groups, subgroups, diagrams, parts, nextPartId>>
memory == <<pc, urlQueue, diagramGroupMap, cur, idx>>
history == <<crashes, failures, lastFetch, runQueued, runFrom, runFetched, runStart, repair>>
vars == <<progress, groups, subgroups, diagrams, parts, nextPartId,
          pc, urlQueue, diagramGroupMap, cur, idx,
          crashes, failures, lastFetch, runQueued, runFrom, runFetched, runStart, repair,
          fetcher, parse, schema, tui>>

\* getUrlStatus: the status of url, "none" when it has no row.
StatusIn(prog, url) ==
    IF \E i \in 1..Len(prog) : prog[i].url = url
    THEN LET i == CHOOSE k \in 1..Len(prog) : prog[k].url = url IN prog[i].status
    ELSE "none"

getUrlStatus(url) == StatusIn(progress, url)

\* markUrlPending: a url that has a row keeps it.
markUrlPending(prog, url) ==
    IF StatusIn(prog, url) = "none"
    THEN Append(prog, [url |-> url, status |-> "pending", error |-> ""])
    ELSE prog

SetStatus(prog, url, st, err) ==
    [i \in 1..Len(prog) |->
        IF prog[i].url = url THEN [url |-> url, status |-> st, error |-> err] ELSE prog[i]]

markUrlCompleted(prog, url) == SetStatus(prog, url, "completed", "")

markUrlFailed(prog, url, err) == SetStatus(prog, url, "failed", err)

\* getPendingUrls: the pending urls, in the order their rows were inserted.
PendingIn(prog) ==
    LET isPending(r) == r.status = "pending"
        rows == SelectSeq(prog, isPending)
    IN [i \in 1..Len(rows) |-> rows[i].url]

getPendingUrls == PendingIn(progress)

\* resetFailedUrls: UPDATE scrape_progress SET status = 'pending' WHERE status = 'failed'
resetFailedUrls(prog) ==
    [i \in 1..Len(prog) |->
        IF prog[i].status = "failed"
        THEN [url |-> prog[i].url, status |-> "pending", error |-> ""]
        ELSE prog[i]]

UrlsWith(st) == {progress[i].url : i \in {k \in 1..Len(progress) : progress[k].status = st}}

\* insertGroup, insertSubgroup, insertDiagram: a row whose id exists is kept.
InsertById(rows, row) == IF \E r \in rows : r.id = row.id THEN rows ELSE rows \cup {row}

insertGroup(rows, row) == InsertById(rows, row)

insertSubgroup(rows, row) == InsertById(rows, row)

insertDiagram(rows, row) == InsertById(rows, row)

\* parts rows: [id, detail_page_id, part_number, data, diagram_id, group_id,
\* subgroup_id, replacement_part_number, replaces_id]; a table is the rows and
\* the AUTOINCREMENT counter, [rows, next].

\* Mutant: a plain INSERT into a table without the UNIQUE constraint.
InsertOrIgnorePart_Always(t, row) ==
    [rows |-> Append(t.rows, [row EXCEPT !.id = t.next]), next |-> t.next + 1]

\* INSERT OR IGNORE INTO parts under UNIQUE(part_number, diagram_id): a row
\* whose pair exists is dropped without an error and takes no id.
InsertOrIgnorePart(t, row) ==
    IF \E i \in 1..Len(t.rows) :
          /\ t.rows[i].part_number = row.part_number
          /\ t.rows[i].diagram_id = row.diagram_id
    THEN t
    ELSE [rows |-> Append(t.rows, [row EXCEPT !.id = t.next]), next |-> t.next + 1]

\* The id of the row (partNumber, diagramId), 0 when there is none.
RowId(rows, partNumber, diagramId) ==
    IF \E i \in 1..Len(rows) :
          rows[i].part_number = partNumber /\ rows[i].diagram_id = diagramId
    THEN LET i == CHOOSE k \in 1..Len(rows) :
                     rows[k].part_number = partNumber /\ rows[k].diagram_id = diagramId
         IN rows[i].id
    ELSE 0

RECURSIVE insertParts(_, _)
\* insertParts: the records in order, each inserted if its pair is absent; a
\* record stacked on another as its replacement refers to that row.
insertParts(t, records) ==
    IF records = <<>> THEN t
    ELSE LET r == Head(records)
             row == [id |-> 0,
                     detail_page_id |-> r.detail_page_id,
                     part_number |-> r.part_number,
                     data |-> r.data,
                     diagram_id |-> r.diagram_id,
                     group_id |-> r.group_id,
                     subgroup_id |-> r.subgroup_id,
                     replacement_part_number |-> "",
                     replaces_id |-> IF r.replaces = "" THEN 0
                                     ELSE RowId(t.rows, r.replaces, r.diagram_id)]
         IN insertParts(InsertOrIgnorePart(t, row), Tail(records))

\* Mutant: the UPDATE without its WHERE clause, which sets NULL where the
\* subquery finds no row.
MergeReplaces_UpdateAll(rows) ==
    LET refs(id) == {k \in 1..Len(rows) : rows[k].replaces_id = id}
        first(id) == CHOOSE k \in refs(id) : \A m \in refs(id) : k <= m
        updated == [i \in 1..Len(rows) |->
                      [rows[i] EXCEPT !.replacement_part_number =
                          IF refs(rows[i].id) # {} THEN rows[first(rows[i].id)].part_number
                          ELSE ""]]
        keep(r) == r.replaces_id = 0
    IN SelectSeq(updated, keep)

\* The replacement merge, as two statements:
\*   UPDATE parts SET replacement_part_number =
\*       (SELECT r.part_number FROM parts r WHERE r.replaces_id = parts.id)
\*     WHERE id IN (SELECT replaces_id FROM parts WHERE replaces_id IS NOT NULL)
\*   DELETE FROM parts WHERE replaces_id IS NOT NULL
\* The scalar subquery takes the first matching row in table order.
MergeReplaces(rows) ==
    LET refs(id) == {k \in 1..Len(rows) : rows[k].replaces_id = id}
        first(id) == CHOOSE k \in refs(id) : \A m \in refs(id) : k <= m
        updated == [i \in 1..Len(rows) |->
                      IF refs(rows[i].id) # {}
                      THEN [rows[i] EXCEPT !.replacement_part_number =
                                               rows[first(rows[i].id)].part_number]
                      ELSE rows[i]]
        keep(r) == r.replaces_id = 0
    IN SelectSeq(updated, keep)

\* ---------------------------------------------------------------- parser
hasPartsTable(page) == page.table

Last(s) == s[Len(s)]

\* isSubcategoryListing: no parts table, a path of at least 5 segments, and
\* a link that includes the page's own fifth segment and ends in a numeric id.
isSubcategoryListing(page, url) ==
    /\ ~hasPartsTable(page)
    /\ Len(url) >= 5
    /\ \E i \in 1..Len(page.hrefs) :
          /\ Includes(Flat(page.hrefs[i]), url[5])
          /\ Len(page.hrefs[i]) > 0
          /\ IsNumeric(Last(page.hrefs[i]))

\* parseIndexPage: the categories in page order, a slug seen before is skipped.
parseIndexPage(page) ==
    LET c == page.cats
        firstOfId(i) == \A k \in 1..(i - 1) : c[k].id # c[i].id
        keep == {i \in 1..Len(c) : firstOfId(i)}
        pos(n) == CHOOSE i \in keep : Cardinality({k \in keep : k < i}) = n - 1
    IN [n \in 1..Cardinality(keep) |-> c[pos(n)]]

\* parseCategoryPage: the links in page order, each once.
parseCategoryPage(page) == Dedup(page.hrefs)

\* parseDetailListSections: one entry per headed section, its ids each once.
parseDetailListSections(page) ==
    [i \in 1..Len(page.sections) |->
        [slug |-> page.sections[i].slug,
         imageUrl |-> page.sections[i].image,
         detailPageIds |-> Dedup(page.sections[i].ids)]]

\* parsePartsPage: the diagram of the page under the id it is given, and the
\* parts around the anchors.
parsePartsPage(page, diagramId) ==
    [diagram |-> [id |-> diagramId, imageUrl |-> page.picture], parts |-> page.parts]

\* getUrlWithFrame sets the frame_no query parameter, the same on every url
\* of a store; a url is modelled by its path.
getUrlWithFrame(url) == url

\* pathParts[k] of the code is Seg(url, k + 1); NoText when it is undefined.
Seg(url, k) == IF Len(url) >= k THEN url[k] ELSE NoText

\* --------------------------------------------------------------- scraper
Unknown == <<10>>

\* The group, subgroup and detail-id segments of a page url.
GroupOf(url) == Seg(url, 4)
SubgroupOf(url) == Seg(url, 5)
DetailOf(url) == Seg(url, 6)

\* `${groupSlug}/${subgroupSlug}`
BasePath(url) == Join(GroupOf(url), SubgroupOf(url))

\* The links of the page of url that processPage walks.
LinksOf(url) ==
    LET l == parseCategoryPage(Site(url))
    IN [i \in 1..Len(l) |-> getUrlWithFrame(l[i])]

\* Mutant: processPartsPage never finds a mapping.
IsHit_Never(map, url) == FALSE

\* processPartsPage: the detail id has an entry in diagramGroupMap.
IsHit(map, url) == DetailOf(url) # NoText /\ DetailOf(url) \in DOMAIN map

\* Mutant: the fallback diagram is the detail page's own.
FallbackDiagramId_PerDetail(url) == Join(Join(GroupOf(url), SubgroupOf(url)), DetailOf(url))

\* processPartsPage, fallback: the diagram id and the subgroup id.
FallbackDiagramId(url) ==
    LET g == IF GroupOf(url) = NoText THEN Unknown ELSE GroupOf(url)
    IN IF SubgroupOf(url) # NoText THEN Join(g, SubgroupOf(url)) ELSE g

FallbackGroupId(url) == IF GroupOf(url) = NoText THEN Unknown ELSE GroupOf(url)

FallbackSubgroupId(url) ==
    IF SubgroupOf(url) # NoText THEN Join(FallbackGroupId(url), SubgroupOf(url)) ELSE NoText

\* The Part records processPartsPage builds from the parsed parts. The cells
\* other than the part number are data; replaces is what those cells show of
\* the row a part is stacked on, which the store's insert reads.
PartRecords(url, diagramId, subgroupId) ==
    LET ps == parsePartsPage(Site(url), diagramId).parts
    IN [i \in 1..Len(ps) |->
          [detail_page_id |-> DetailOf(url),
           part_number |-> ps[i].partNumber,
           data |-> ps[i].data,
           replaces |-> ps[i].replaces,
           diagram_id |-> diagramId,
           group_id |-> FallbackGroupId(url),
           subgroup_id |-> subgroupId]]

\* Where processPage goes after the subgroup and parts handlers: the link loop.
ToLinks(url) == IF Len(LinksOf(url)) > 0 THEN "links" ELSE "complete"

\* processPage, the parts-table branch.
ToParts(map, url) ==
    IF ~hasPartsTable(Site(url)) THEN ToLinks(url)
    ELSE IF IsHit(map, url)
         THEN (IF Len(Site(url).parts) > 0 THEN "hitParts" ELSE ToLinks(url))
         ELSE "missGroup"

\* processPage, from its start.
ToPage(map, url) ==
    IF isSubcategoryListing(Site(url), url)
    THEN (IF GroupOf(url) = NoText \/ SubgroupOf(url) = NoText THEN ToParts(map, url)
          ELSE IF Len(parseDetailListSections(Site(url))) <= 1 THEN "sgSubgroup"
          ELSE "sgMultiSubgroup")
    ELSE ToParts(map, url)

EmptyMap == [d \in {} |-> NoText]

\* No repair pass has run since the last scraper process. A running pass is
\* at a place of the script ("loop" between two paths, "fetch" in fetchPage),
\* with the paths it still has to visit and the fetchPage call in hand: the
\* attempt, the status of every response, every wait in milliseconds, and
\* whether the call is running, has returned or has thrown ("error").
NoRepair ==
    [ran |-> FALSE, fetched |-> {}, at |-> "idle", todo |-> <<>>,
     call |-> [attempt |-> 0, responses |-> <<>>, waits |-> <<>>, outcome |-> "none"]]

\* -------------------------------------------------------------- fetcher
\* DEFAULT_CONFIG, in milliseconds; backoffMultiplier 1.5 as the ratio 3 : 2.
initialDelay == 3000
minDelay == 1000
maxDelay == 120000
backoffMultiplier == [times |-> 3, over |-> 2]

\* currentDelay is held in 512ths of a millisecond: a double holds these
\* exactly, and so the products by 1.5 of the delays below are exact.
PerMs == 512

Min(a, b) == IF a <= b THEN a ELSE b
Max(a, b) == IF a >= b THEN a ELSE b

\* currentDelay * backoffMultiplier
Times(d) == (d \div backoffMultiplier.over) * backoffMultiplier.times
            + ((d % backoffMultiplier.over) * backoffMultiplier.times) \div backoffMultiplier.over

\* Mutant: the product is not clamped.
BackedOff_Unclamped(d) == Times(d)

\* Mutant: the delay doubles.
BackedOff_Doubled(d) == Min(maxDelay * PerMs, d * 2)

\* On HTTP 429 or a transport error: currentDelay * backoffMultiplier, clamped
\* to maxDelay.
BackedOff(d) == Min(maxDelay * PerMs, Times(d))

\* On success currentDelay relaxes toward minDelay; the step is any of: half
\* of the way, all of the way.
Relaxed(d) == {Max(minDelay * PerMs, (d + minDelay * PerMs) \div 2), minDelay * PerMs}

\* new RateLimitedFetcher(config)
NewFetcher ==
    [currentDelay |-> initialDelay * PerMs,
     waited |-> 0,                 \* the delay the last fetch suspended for
     result |-> "none",            \* what the last fetch returned: "ok" or "error"
     consecutiveFailures |-> 0,    \* the failed fetches since the last success
     successes |-> 0]              \* the successful fetches

\* No parser call is in hand.
NoParse == [fn |-> "none", args |-> <<>>, returned |-> <<>>]

\* A database createSchema made from nothing: the columns it gives parts and
\* diagrams, no legacy table, no legacy column.
CurrentSchema ==
    [partsColumns |->
         {"id", "detail_page_id", "part_number", "pnc", "description", "ref_number",
          "quantity", "spec", "notes", "color", "model_date_range", "diagram_id",
          "group_id", "subgroup_id", "replacement_part_number", "created_at",
          "updated_at"},
     diagramsColumns |->
         {"id", "group_id", "subgroup_id", "name", "image_url", "image_path",
          "source_url"},
     subgroupsPath |-> "not null", categories |-> <<>>, hasCategories |-> FALSE,
     calls |-> 0, failed |-> FALSE]

\* No part-detail screen is open.
NoScreen == [open |-> FALSE, note |-> NoText, editingNote |-> FALSE,
             noteInput |-> NoText, stored |-> NoText, key |-> "none"]

Init ==
    /\ progress = <<>>
    /\ groups = {}
    /\ subgroups = {}
    /\ diagrams = {}
    /\ parts = <<>>
    /\ nextPartId = 1
    /\ pc = "idle"
    /\ urlQueue = <<>>
    /\ diagramGroupMap = EmptyMap
    /\ cur = NoText
    /\ idx = 0
    /\ crashes = 0
    /\ failures = 0
    /\ lastFetch = NoText
    /\ runQueued = <<>>
    /\ runFrom = <<>>
    /\ runFetched = <<>>
    /\ runStart = [pending |-> {}, completed |-> {}, failed |-> {}]
    /\ repair = NoRepair
    /\ fetcher = NewFetcher
    /\ parse = NoParse
    /\ schema = CurrentSchema
    /\ tui = NoScreen

\* A new process: new Scraper(client, config).
NewProcess ==
    /\ urlQueue' = <<>>
    /\ diagramGroupMap' = EmptyMap
    /\ cur' = NoText
    /\ idx' = 0
    /\ lastFetch' = NoText
    /\ runQueued' = <<>>
    /\ runFrom' = <<>>
    /\ runFetched' = <<>>
    /\ runStart' = [pending |-> {}, completed |-> {}, failed |-> {}]
    /\ repair' = NoRepair
    /\ fetcher' = NewFetcher
    /\ UNCHANGED <<parse, schema, tui>>

\* main.ts scrapeCommand
ScrapeCommand ==
    /\ pc = "idle"
    /\ pc' = "run"
    /\ NewProcess
    /\ UNCHANGED <<store, crashes, failures>>

\* main.ts retryCommand: the scraper runs only if a url was reset.
RetryCommand ==
    /\ pc = "idle"
    /\ progress' = resetFailedUrls(progress)
    /\ pc' = IF UrlsWith("failed") # {} THEN "run" ELSE "idle"
    /\ NewProcess
    /\ UNCHANGED <<groups, subgroups, diagrams, parts, nextPartId, crashes, failures>>

\* The process is killed.
Crash ==
    /\ pc # "idle"
    /\ crashes < MaxCrashes
    /\ crashes' = crashes + 1
    /\ pc' = "idle"
    /\ NewProcess
    /\ UNCHANGED <<store, failures>>

\* Mutant: run() always starts from the index page.
ShouldResume_Never(pendingUrls) == FALSE

\* Scraper.run: the previous run's pending urls are resumed if there are any.
ShouldResume(pendingUrls) == Len(pendingUrls) > 0

\* Scraper.run, up to the choice between resuming and scrapeIndex.
Run ==
    /\ pc = "run"
    /\ runStart' = [pending |-> UrlsWith("pending"), completed |-> UrlsWith("completed"),
                    failed |-> UrlsWith("failed")]
    /\ IF ShouldResume(getPendingUrls)
       THEN /\ urlQueue' = getPendingUrls
            /\ runQueued' = getPendingUrls
            /\ runFrom' = [i \in 1..Len(getPendingUrls) |-> NoText]
            /\ pc' = "queue"
       ELSE /\ pc' = "scrapeIndex"
            /\ UNCHANGED <<urlQueue, runQueued, runFrom>>
    /\ lastFetch' = NoText
    /\ UNCHANGED <<store, diagramGroupMap, cur, idx, crashes, failures, runFetched, repair,
                   fetcher, parse, schema, tui>>

\* scrapeIndex, up to markUrlPending(indexUrl).
ScrapeIndexBegin ==
    /\ pc = "scrapeIndex"
    /\ IF getUrlStatus(IndexUrl) = "completed"
       THEN /\ urlQueue' = getPendingUrls
            /\ runQueued' = runQueued \o getPendingUrls
            /\ runFrom' = runFrom \o [i \in 1..Len(getPendingUrls) |-> NoText]
            /\ pc' = "queue"
            /\ UNCHANGED progress
       ELSE /\ progress' = markUrlPending(progress, IndexUrl)
            /\ pc' = "indexFetch"
            /\ UNCHANGED <<urlQueue, runQueued, runFrom>>
    /\ lastFetch' = NoText
    /\ UNCHANGED <<groups, subgroups, diagrams, parts, nextPartId, diagramGroupMap, cur, idx,
                   crashes, failures, runFetched, runStart, repair,
                   fetcher, parse, schema, tui>>

\* scrapeIndex: the fetch of the index page succeeds.
ScrapeIndexFetchOk ==
    /\ pc = "indexFetch"
    /\ lastFetch' = IndexUrl
    /\ runFetched' = Append(runFetched, IndexUrl)
    /\ idx' = 1
    /\ pc' = IF Len(parseIndexPage(Site(IndexUrl))) > 0 THEN "indexGroup" ELSE "indexDone"
    /\ UNCHANGED <<store, urlQueue, diagramGroupMap, cur, crashes, failures, runQueued, runFrom, runStart, repair,
                   fetcher, parse, schema, tui>>

\* scrapeIndex: the fetch of the index page fails; scrapeIndex returns.
ScrapeIndexFetchFail ==
    /\ pc = "indexFetch"
    /\ failures < MaxFailures
    /\ failures' = failures + 1
    /\ lastFetch' = IndexUrl
    /\ runFetched' = Append(runFetched, IndexUrl)
    /\ progress' = markUrlFailed(progress, IndexUrl, "error")
    /\ pc' = "queue"
    /\ UNCHANGED <<groups, subgroups, diagrams, parts, nextPartId, urlQueue, diagramGroupMap,
                   cur, idx, crashes, runQueued, runFrom, runStart, repair,
                   fetcher, parse, schema, tui>>

\* scrapeIndex, the category loop: insertGroup.
ScrapeIndexGroup ==
    /\ pc = "indexGroup"
    /\ LET cat == parseIndexPage(Site(IndexUrl))[idx]
       IN groups' = insertGroup(groups, [id |-> cat.id, name |-> cat.name])
    /\ pc' = "indexEnqueue"
    /\ lastFetch' = NoText
    /\ UNCHANGED <<progress, subgroups, diagrams, parts, nextPartId, urlQueue, diagramGroupMap,
                   cur, idx, crashes, failures, runQueued, runFrom, runFetched, runStart, repair,
                   fetcher, parse, schema, tui>>

\* scrapeIndex, the category loop: markUrlPending and the push.
ScrapeIndexEnqueue ==
    /\ pc = "indexEnqueue"
    /\ LET cats == parseIndexPage(Site(IndexUrl))
           catUrl == getUrlWithFrame(cats[idx].url)
       IN /\ progress' = markUrlPending(progress, catUrl)
          /\ urlQueue' = Append(urlQueue, catUrl)
          /\ runQueued' = Append(runQueued, catUrl)
          /\ runFrom' = Append(runFrom, IndexUrl)
          /\ pc' = IF idx < Len(cats) THEN "indexGroup" ELSE "indexDone"
    /\ idx' = idx + 1
    /\ lastFetch' = NoText
    /\ UNCHANGED <<groups, subgroups, diagrams, parts, nextPartId, diagramGroupMap, cur,
                   crashes, failures, runFetched, runStart, repair,
                   fetcher, parse, schema, tui>>

\* scrapeIndex: markUrlCompleted(indexUrl).
ScrapeIndexDone ==
    /\ pc = "indexDone"
    /\ progress' = markUrlCompleted(progress, IndexUrl)
    /\ pc' = "queue"
    /\ lastFetch' = NoText
    /\ UNCHANGED <<groups, subgroups, diagrams, parts, nextPartId, urlQueue, diagramGroupMap,
                   cur, idx, crashes, failures, runQueued, runFrom, runFetched, runStart, repair,
                   fetcher, parse, schema, tui>>

\* Mutant: urlQueue.pop(), the last url queued is taken first.
Shift_FromTail(q) == [url |-> q[Len(q)], rest |-> SubSeq(q, 1, Len(q) - 1)]

\* processQueue: urlQueue.shift() takes the head and leaves the rest.
Shift(q) == [url |-> Head(q), rest |-> Tail(q)]

\* Mutant: processQueue does not look at the status of the url it takes.
IsAlreadyCompleted_Never(status) == FALSE

\* processQueue: a url whose status is completed is skipped.
IsAlreadyCompleted(status) == status = "completed"

\* Mutant: a failed fetch ends the queue loop.
AfterFailedFetch_Break == "merge"

\* processQueue, after a failed fetch: continue with the next queued url.
AfterFailedFetch == "queue"

\* Mutant: the loop ends with a url still in the queue.
ProcessQueueNext_MergeEarly ==
    /\ pc = "queue"
    /\ IF Len(urlQueue) <= 1
       THEN /\ pc' = "merge"
            /\ UNCHANGED <<urlQueue, cur>>
       ELSE /\ urlQueue' = Shift(urlQueue).rest
            /\ IF IsAlreadyCompleted(getUrlStatus(Shift(urlQueue).url))
               THEN pc' = "queue" /\ UNCHANGED cur
               ELSE pc' = "fetch" /\ cur' = Shift(urlQueue).url
    /\ lastFetch' = NoText
    /\ UNCHANGED <<store, diagramGroupMap, idx, crashes, failures, runQueued, runFrom, runFetched, runStart, repair,
                   fetcher, parse, schema, tui>>

\* processQueue, from the loop test to the fetch.
ProcessQueueNext ==
    /\ pc = "queue"
    /\ IF Len(urlQueue) = 0
       THEN /\ pc' = "merge"
            /\ UNCHANGED <<urlQueue, cur>>
       ELSE /\ urlQueue' = Shift(urlQueue).rest
            /\ IF IsAlreadyCompleted(getUrlStatus(Shift(urlQueue).url))
               THEN pc' = "queue" /\ UNCHANGED cur
               ELSE pc' = "fetch" /\ cur' = Shift(urlQueue).url
    /\ lastFetch' = NoText
    /\ UNCHANGED <<store, diagramGroupMap, idx, crashes, failures, runQueued, runFrom, runFetched, runStart, repair,
                   fetcher, parse, schema, tui>>

\* processQueue: the fetch succeeds and processPage starts.
ProcessQueueFetchOk ==
    /\ pc = "fetch"
    /\ lastFetch' = cur
    /\ runFetched' = Append(runFetched, cur)
    /\ pc' = ToPage(diagramGroupMap, cur)
    /\ idx' = 1
    /\ UNCHANGED <<store, urlQueue, diagramGroupMap, cur, crashes, failures, runQueued, runFrom, runStart, repair,
                   fetcher, parse, schema, tui>>

\* processQueue: the fetch fails, the url is marked failed.
ProcessQueueFetchFail ==
    /\ pc = "fetch"
    /\ failures < MaxFailures
    /\ failures' = failures + 1
    /\ lastFetch' = cur
    /\ runFetched' = Append(runFetched, cur)
    /\ progress' = markUrlFailed(progress, cur, "error")
    /\ pc' = AfterFailedFetch
    /\ UNCHANGED <<groups, subgroups, diagrams, parts, nextPartId, urlQueue, diagramGroupMap,
                   cur, idx, crashes, runQueued, runFrom, runStart, repair,
                   fetcher, parse, schema, tui>>

\* processSubgroupPage, at most one section: insertSubgroup.
SubgroupSingle ==
    /\ pc = "sgSubgroup"
    /\ subgroups' = insertSubgroup(subgroups,
                        [id |-> BasePath(cur), group_id |-> GroupOf(cur), path |-> BasePath(cur)])
    /\ LET sections == parseDetailListSections(Site(cur))
       IN pc' = IF Len(sections) = 1 /\ sections[1].imageUrl
                THEN "sgDiagram" ELSE ToParts(diagramGroupMap, cur)
    /\ lastFetch' = NoText
    /\ UNCHANGED <<progress, groups, diagrams, parts, nextPartId, urlQueue, diagramGroupMap,
                   cur, idx, crashes, failures, runQueued, runFrom, runFetched, runStart, repair,
                   fetcher, parse, schema, tui>>

\* Mutant: the loop over a section's detail ids leaves out the first.
MapSection_SkipFirst(map, ids, diagramId, subgroupId) ==
    LET rest == IF ids = <<>> THEN {} ELSE Range(Tail(ids))
    IN [d \in DOMAIN map \cup rest |->
           IF d \in rest THEN [diagramId |-> diagramId, subgroupId |-> subgroupId]
           ELSE map[d]]

\* diagramGroupMap.set for every detail id of a section, in order.
MapSection(map, ids, diagramId, subgroupId) ==
    [d \in DOMAIN map \cup Range(ids) |->
        IF d \in Range(ids) THEN [diagramId |-> diagramId, subgroupId |-> subgroupId]
        ELSE map[d]]

\* processSubgroupPage, one section with an image: insertDiagram and the map.
SubgroupSingleDiagram ==
    /\ pc = "sgDiagram"
    /\ LET section == parseDetailListSections(Site(cur))[1]
       IN /\ diagrams' = insertDiagram(diagrams,
                            [id |-> BasePath(cur), group_id |-> GroupOf(cur),
                             subgroup_id |-> BasePath(cur), image |-> section.imageUrl,
                             image_path |-> FALSE, source_url |-> cur])
          /\ diagramGroupMap' = MapSection(diagramGroupMap, section.detailPageIds,
                                           BasePath(cur), BasePath(cur))
    /\ pc' = ToParts(diagramGroupMap', cur)
    /\ lastFetch' = NoText
    /\ UNCHANGED <<progress, groups, subgroups, parts, nextPartId, urlQueue,
                   cur, idx, crashes, failures, runQueued, runFrom, runFetched, runStart, repair,
                   fetcher, parse, schema, tui>>

\* `${basePath}/${section.slug}`
SectionId(url, section) == Join(BasePath(url), section.slug)

\* processSubgroupPage, several sections: insertSubgroup of section idx.
SubgroupMulti ==
    /\ pc = "sgMultiSubgroup"
    /\ LET section == parseDetailListSections(Site(cur))[idx]
       IN subgroups' = insertSubgroup(subgroups,
                           [id |-> SectionId(cur, section), group_id |-> GroupOf(cur),
                            path |-> BasePath(cur)])
    /\ pc' = "sgMultiDiagram"
    /\ lastFetch' = NoText
    /\ UNCHANGED <<progress, groups, diagrams, parts, nextPartId, urlQueue, diagramGroupMap,
                   cur, idx, crashes, failures, runQueued, runFrom, runFetched, runStart, repair,
                   fetcher, parse, schema, tui>>

\* processSubgroupPage, several sections: insertDiagram of section idx and the map.
SubgroupMultiDiagram ==
    /\ pc = "sgMultiDiagram"
    /\ LET sections == parseDetailListSections(Site(cur))
           section == sections[idx]
           id == SectionId(cur, section)
       IN /\ diagrams' = insertDiagram(diagrams,
                            [id |-> id, group_id |-> GroupOf(cur), subgroup_id |-> id,
                             image |-> section.imageUrl, image_path |-> FALSE,
                             source_url |-> cur])
          /\ diagramGroupMap' = MapSection(diagramGroupMap, section.detailPageIds, id, id)
          /\ IF idx < Len(sections)
             THEN pc' = "sgMultiSubgroup" /\ idx' = idx + 1
             ELSE pc' = ToParts(diagramGroupMap', cur) /\ idx' = 1
    /\ lastFetch' = NoText
    /\ UNCHANGED <<progress, groups, subgroups, parts, nextPartId, urlQueue,
                   cur, crashes, failures, runQueued, runFrom, runFetched, runStart, repair,
                   fetcher, parse, schema, tui>>

PartsTable == [rows |-> parts, next |-> nextPartId]

\* processPartsPage, mapping found: insertParts under the mapped pair.
PartsHit ==
    /\ pc = "hitParts"
    /\ LET mapping == diagramGroupMap[DetailOf(cur)]
           t == insertParts(PartsTable,
                            PartRecords(cur, mapping.diagramId, mapping.subgroupId))
       IN parts' = t.rows /\ nextPartId' = t.next
    /\ pc' = ToLinks(cur)
    /\ lastFetch' = NoText
    /\ UNCHANGED <<progress, groups, subgroups, diagrams, urlQueue, diagramGroupMap,
                   cur, idx, crashes, failures, runQueued, runFrom, runFetched, runStart, repair,
                   fetcher, parse, schema, tui>>

\* processPartsPage, fallback: insertGroup.
PartsMissGroup ==
    /\ pc = "missGroup"
    /\ groups' = insertGroup(groups, [id |-> FallbackGroupId(cur), name |-> "slug"])
    /\ pc' = IF SubgroupOf(cur) # NoText THEN "missSubgroup" ELSE "missDiagram"
    /\ lastFetch' = NoText
    /\ UNCHANGED <<progress, subgroups, diagrams, parts, nextPartId, urlQueue, diagramGroupMap,
                   cur, idx, crashes, failures, runQueued, runFrom, runFetched, runStart, repair,
                   fetcher, parse, schema, tui>>

\* processPartsPage, fallback: insertSubgroup.
PartsMissSubgroup ==
    /\ pc = "missSubgroup"
    /\ subgroups' = insertSubgroup(subgroups,
                        [id |-> FallbackSubgroupId(cur), group_id |-> FallbackGroupId(cur),
                         path |-> FallbackSubgroupId(cur)])
    /\ pc' = "missDiagram"
    /\ lastFetch' = NoText
    /\ UNCHANGED <<progress, groups, diagrams, parts, nextPartId, urlQueue, diagramGroupMap,
                   cur, idx, crashes, failures, runQueued, runFrom, runFetched, runStart, repair,
                   fetcher, parse, schema, tui>>

\* processPartsPage, fallback: insertDiagram.
PartsMissDiagram ==
    /\ pc = "missDiagram"
    /\ LET page == parsePartsPage(Site(cur), FallbackDiagramId(cur))
       IN /\ diagrams' = insertDiagram(diagrams,
                            [id |-> page.diagram.id, group_id |-> FallbackGroupId(cur),
                             subgroup_id |-> FallbackSubgroupId(cur),
                             image |-> page.diagram.imageUrl, image_path |-> FALSE,
                             source_url |-> cur])
          /\ pc' = IF Len(page.parts) > 0 THEN "missParts" ELSE ToLinks(cur)
    /\ lastFetch' = NoText
    /\ UNCHANGED <<progress, groups, subgroups, parts, nextPartId, urlQueue, diagramGroupMap,
                   cur, idx, crashes, failures, runQueued, runFrom, runFetched, runStart, repair,
                   fetcher, parse, schema, tui>>

\* processPartsPage, fallback: insertParts under the fallback diagram.
PartsMiss ==
    /\ pc = "missParts"
    /\ LET t == insertParts(PartsTable,
                            PartRecords(cur, FallbackDiagramId(cur), FallbackSubgroupId(cur)))
       IN parts' = t.rows /\ nextPartId' = t.next
    /\ pc' = ToLinks(cur)
    /\ lastFetch' = NoText
    /\ UNCHANGED <<progress, groups, subgroups, diagrams, urlQueue, diagramGroupMap,
                   cur, idx, crashes, failures, runQueued, runFrom, runFetched, runStart, repair,
                   fetcher, parse, schema, tui>>

\* Mutant: the link loop marks a new link pending and does not push it.
EnqueueLink_NoPush ==
    /\ pc = "links"
    /\ LET links == LinksOf(cur)
           link == links[idx]
       IN /\ IF getUrlStatus(link) = "none"
             THEN /\ progress' = markUrlPending(progress, link)
                  /\ runQueued' = Append(runQueued, link)
                  /\ runFrom' = Append(runFrom, cur)
                  /\ UNCHANGED urlQueue
             ELSE UNCHANGED <<progress, urlQueue, runQueued, runFrom>>
          /\ pc' = IF idx < Len(links) THEN "links" ELSE "complete"
    /\ idx' = idx + 1
    /\ lastFetch' = NoText
    /\ UNCHANGED <<groups, subgroups, diagrams, parts, nextPartId, diagramGroupMap,
                   cur, crashes, failures, runFetched, runStart, repair,
                   fetcher, parse, schema, tui>>

\* processPage, the link loop: link idx is queued if it has no status.
EnqueueLink ==
    /\ pc = "links"
    /\ LET links == LinksOf(cur)
           link == links[idx]
       IN /\ IF getUrlStatus(link) = "none"
             THEN /\ progress' = markUrlPending(progress, link)
                  /\ urlQueue' = Append(urlQueue, link)
                  /\ runQueued' = Append(runQueued, link)
                  /\ runFrom' = Append(runFrom, cur)
             ELSE UNCHANGED <<progress, urlQueue, runQueued, runFrom>>
          /\ pc' = IF idx < Len(links) THEN "links" ELSE "complete"
    /\ idx' = idx + 1
    /\ lastFetch' = NoText
    /\ UNCHANGED <<groups, subgroups, diagrams, parts, nextPartId, diagramGroupMap,
                   cur, crashes, failures, runFetched, runStart, repair,
                   fetcher, parse, schema, tui>>

\* Mutant: a page that yielded no part and no section is marked failed.
MarkCompleted_FailOnGap ==
    /\ pc = "complete"
    /\ progress' = IF Site(cur).parts = <<>> /\ Site(cur).sections = <<>> /\ Site(cur).cats = <<>>
                   THEN markUrlFailed(progress, cur, "error")
                   ELSE markUrlCompleted(progress, cur)
    /\ pc' = "queue"
    /\ lastFetch' = NoText
    /\ UNCHANGED <<groups, subgroups, diagrams, parts, nextPartId, urlQueue, diagramGroupMap,
                   cur, idx, crashes, failures, runQueued, runFrom, runFetched, runStart, repair,
                   fetcher, parse, schema, tui>>

\* processQueue: markUrlCompleted(url) after processPage.
MarkCompleted ==
    /\ pc = "complete"
    /\ progress' = markUrlCompleted(progress, cur)
    /\ pc' = "queue"
    /\ lastFetch' = NoText
    /\ UNCHANGED <<groups, subgroups, diagrams, parts, nextPartId, urlQueue, diagramGroupMap,
                   cur, idx, crashes, failures, runQueued, runFrom, runFetched, runStart, repair,
                   fetcher, parse, schema, tui>>

\* Scraper.mergeReplacementParts
MergeReplacementParts ==
    /\ pc = "merge"
    /\ parts' = MergeReplaces(parts)
    /\ pc' = "images"
    /\ lastFetch' = NoText
    /\ UNCHANGED <<progress, groups, subgroups, diagrams, nextPartId, urlQueue, diagramGroupMap,
                   cur, idx, crashes, failures, runQueued, runFrom, runFetched, runStart, repair,
                   fetcher, parse, schema, tui>>

\* getDiagramsWithoutImages, less those downloadImages skips for having no image_url.
ImagesToDownload == {d \in diagrams : ~d.image_path /\ d.image}

\* Scraper.downloadImages: every image either is saved or fails; run() returns.
DownloadImages ==
    /\ pc = "images"
    /\ \E saved \in SUBSET ImagesToDownload :
          diagrams' = (diagrams \ saved) \cup {[d EXCEPT !.image_path = TRUE] : d \in saved}
    /\ pc' = "idle"
    /\ NewProcess
    /\ UNCHANGED <<progress, groups, subgroups, parts, nextPartId, crashes, failures>>

\* ------------------------------------------------- fix shared parts script
\* A set of texts as the list ORDER BY gives.
SortTexts(S) ==
    LET rank(x) == Cardinality({y \in S : TextLess(y, x)})
    IN [n \in 1..Cardinality(S) |-> CHOOSE x \in S : rank(x) = n - 1]

\* SELECT s.path ... FROM subgroups s JOIN diagrams d ON d.subgroup_id = s.id
\*   GROUP BY s.path HAVING COUNT(DISTINCT d.id) > 1
PathsWithMultipleDiagrams ==
    LET diagramsOf(path) ==
            {d.id : d \in {x \in diagrams :
                             \E sg \in subgroups : sg.path = path /\ x.subgroup_id = sg.id}}
    IN SortTexts({sg.path : sg \in {x \in subgroups : Cardinality(diagramsOf(x.path)) > 1}})

\* SELECT id FROM diagrams WHERE subgroup_id LIKE ? || '%' ORDER BY id
DiagramsLike(path) ==
    SortTexts({d.id : d \in {x \in diagrams :
                               x.subgroup_id # NoText /\ LikePrefix(x.subgroup_id, path)}})

\* The script's own parseDetailListSections: the id list of every headed section.
FixSections(page) ==
    [i \in 1..Len(page.sections) |-> Dedup(page.sections[i].ids)]

\* The url of a path is the base url and the path's segments; the paths of
\* this model are group/subgroup.
PathUrl(path) ==
    LET cut == CHOOSE i \in 1..Len(path) : path[i] = Sep[1]
                                           /\ \A k \in 1..(i - 1) : path[k] # Sep[1]
    IN BaseUrl \o <<SubSeq(path, 1, cut - 1), SubSeq(path, cut + 1, Len(path))>>

\* detailIdToDiagrams: the diagrams of the sections that list detailId, in order.
DiagramsOfDetail(sections, diagramIds, detailId) ==
    LET has(i) == detailId \in Range(sections[i])
        at == {i \in 1..Len(sections) : has(i)}
    IN [n \in 1..Cardinality(at) |->
          diagramIds[CHOOSE i \in at : Cardinality({k \in at : k < i}) = n - 1]]

RECURSIVE Concat(_)
Concat(ss) == IF ss = <<>> THEN <<>> ELSE Head(ss) \o Concat(Tail(ss))

\* The detail ids listed by more than one section, in order of first appearance.
SharedDetailIds(sections, diagramIds) ==
    LET all == Dedup(Concat(sections))
        shared(d) == Len(DiagramsOfDetail(sections, diagramIds, d)) > 1
    IN SelectSeq(all, shared)

\* INSERT OR REPLACE: a row whose pair exists is deleted and the new row added.
InsertOrReplacePart(t, row) ==
    LET other(r) == ~(r.part_number = row.part_number /\ r.diagram_id = row.diagram_id)
    IN [rows |-> Append(SelectSeq(t.rows, other), [row EXCEPT !.id = t.next]),
        next |-> t.next + 1]

RECURSIVE InsertCopies_Replace(_, _, _)
\* Mutant: the repair pass writes its copies with INSERT OR REPLACE.
InsertCopies_Replace(t, rows, diagramId) ==
    IF rows = <<>> THEN t
    ELSE LET r == Head(rows)
             row == [id |-> 0,
                     detail_page_id |-> r.detail_page_id,
                     part_number |-> r.part_number,
                     data |-> r.data,
                     diagram_id |-> diagramId,
                     group_id |-> r.group_id,
                     subgroup_id |-> diagramId,
                     replacement_part_number |-> r.replacement_part_number,
                     replaces_id |-> 0]
         IN InsertCopies_Replace(InsertOrReplacePart(t, row), Tail(rows), diagramId)

RECURSIVE InsertCopies(_, _, _)
\* The INSERT OR IGNORE of every part row under one diagram.
InsertCopies(t, rows, diagramId) ==
    IF rows = <<>> THEN t
    ELSE LET r == Head(rows)
             row == [id |-> 0,
                     detail_page_id |-> r.detail_page_id,
                     part_number |-> r.part_number,
                     data |-> r.data,
                     diagram_id |-> diagramId,
                     group_id |-> r.group_id,
                     subgroup_id |-> diagramId,
                     replacement_part_number |-> r.replacement_part_number,
                     replaces_id |-> 0]
         IN InsertCopies(InsertOrIgnorePart(t, row), Tail(rows), diagramId)

RECURSIVE InsertUnder(_, _, _)
InsertUnder(t, rows, diagramIds) ==
    IF diagramIds = <<>> THEN t
    ELSE InsertUnder(InsertCopies(t, rows, Head(diagramIds)), rows, Tail(diagramIds))

\* One shared detail id: its part rows are copied under the sharing diagrams
\* that hold none of them.
FixDetail(t, detailId, diagramIds) ==
    LET ofDetail(r) == r.detail_page_id = detailId
        partRows == SelectSeq(t.rows, ofDetail)
        existing == {partRows[i].diagram_id : i \in 1..Len(partRows)}
        isMissing(d) == d \notin existing
        missing == SelectSeq(diagramIds, isMissing)
    IN IF Len(partRows) = 0 THEN t ELSE InsertUnder(t, partRows, missing)

RECURSIVE FixDetails(_, _, _, _)
FixDetails(t, shared, sections, diagramIds) ==
    IF shared = <<>> THEN t
    ELSE FixDetails(FixDetail(t, Head(shared),
                              DiagramsOfDetail(sections, diagramIds, Head(shared))),
                    Tail(shared), sections, diagramIds)

\* One path of the script's loop: fetched says whether fetchPage returned the page.
FixPath(t, path, fetched) ==
    LET diagramIds == DiagramsLike(path)
        sections == FixSections(Site(PathUrl(path)))
    IN IF ~fetched THEN t
       ELSE IF Len(sections) # Len(diagramIds) THEN t
       ELSE FixDetails(t, SharedDetailIds(sections, diagramIds), sections, diagramIds)

RECURSIVE FixPaths_AbortOnFailure(_, _, _)
\* Mutant: the first page that cannot be fetched ends the pass.
FixPaths_AbortOnFailure(t, paths, fetchedPaths) ==
    IF paths = <<>> \/ Head(paths) \notin fetchedPaths THEN t
    ELSE FixPaths_AbortOnFailure(FixPath(t, Head(paths), TRUE), Tail(paths), fetchedPaths)

RECURSIVE FixPaths(_, _, _)
FixPaths(t, paths, fetchedPaths) ==
    IF paths = <<>> THEN t
    ELSE FixPaths(FixPath(t, Head(paths), Head(paths) \in fetchedPaths),
                  Tail(paths), fetchedPaths)

\* The script, run while no scraper runs: every path's page is fetched or not.
FixSharedParts ==
    /\ pc = "idle"
    /\ \E fetchedPaths \in SUBSET Range(PathsWithMultipleDiagrams) :
          LET t == FixPaths(PartsTable, PathsWithMultipleDiagrams, fetchedPaths)
          IN /\ parts' = t.rows
             /\ nextPartId' = t.next
             /\ repair' = [NoRepair EXCEPT !.ran = TRUE, !.fetched = fetchedPaths]
    /\ UNCHANGED <<progress, groups, subgroups, diagrams, memory, crashes, failures,
                   lastFetch, runQueued, runFrom, runFetched, runStart, fetcher, parse, schema, tui>>

Next ==
    \/ ScrapeCommand
    \/ RetryCommand
    \/ Crash
    \/ Run
    \/ ScrapeIndexBegin
    \/ ScrapeIndexFetchOk
    \/ ScrapeIndexFetchFail
    \/ ScrapeIndexGroup
    \/ ScrapeIndexEnqueue
    \/ ScrapeIndexDone
    \/ ProcessQueueNext
    \/ ProcessQueueFetchOk
    \/ ProcessQueueFetchFail
    \/ SubgroupSingle
    \/ SubgroupSingleDiagram
    \/ SubgroupMulti
    \/ SubgroupMultiDiagram
    \/ PartsHit
    \/ PartsMissGroup
    \/ PartsMissSubgroup
    \/ PartsMissDiagram
    \/ PartsMiss
    \/ EnqueueLink
    \/ MarkCompleted
    \/ MergeReplacementParts
    \/ DownloadImages
    \/ FixSharedParts

Spec == Init /\ [][Next]_vars

\* ================================================================ claims
NoDuplicates(s) == \A i, j \in 1..Len(s) : s[i] = s[j] => i = j

\* A step of the running process, not its being killed.
ProcessStep == pc' # "idle" \/ pc = "images"

\* The url an enqueue step is about.
EnqueuedUrl ==
    IF pc = "links" THEN LinksOf(cur)[idx]
    ELSE getUrlWithFrame(parseIndexPage(Site(IndexUrl))[idx].url)

\* C1: enqueueing a url that already has a CrawlState, from the link loop of
\* processPage or from the category loop of scrapeIndex, changes neither the
\* CrawlStates nor the work queue; enqueueing a url that has none adds one
\* pending CrawlState and one queue entry; no url is queued twice in a run.
C1_EnqueueIdempotent ==
    /\ [][(pc \in {"links", "indexEnqueue"} /\ ProcessStep) =>
            IF getUrlStatus(EnqueuedUrl) # "none"
            THEN progress' = progress /\ urlQueue' = urlQueue
            ELSE /\ progress' = Append(progress, [url |-> EnqueuedUrl, status |-> "pending",
                                                  error |-> ""])
                 /\ urlQueue' = Append(urlQueue, EnqueuedUrl)]_vars
    /\ [](NoDuplicates(runQueued))

\* C2: a url whose CrawlState is completed stays completed and is not
\* fetched by any later step, whatever runs, crashes and retries follow.
C2_CompletedIsTerminal ==
    [][\A u \in Urls : getUrlStatus(u) = "completed" =>
          StatusIn(progress', u) = "completed" /\ lastFetch' # u]_vars

\* C2 witness: a run that found a completed url in its queue has walked the
\* whole queue.
C2_Witness ==
    /\ pc = "merge"
    /\ \E u \in runStart.completed : u \in Range(runQueued)

\* C3: a url whose CrawlState is failed is not fetched and stays failed in
\* every step but the bulk reset of the retry command.
C3_FailedNeedsReset ==
    [][\A u \in Urls : getUrlStatus(u) = "failed" =>
          \/ StatusIn(progress', u) = "failed" /\ lastFetch' # u
          \/ pc = "idle" /\ progress' = resetFailedUrls(progress)]_vars

PartKept(partNumber, diagramId) ==
    \E i \in 1..Len(parts) :
        /\ parts[i].diagram_id = diagramId
        /\ \/ parts[i].part_number = partNumber
           \/ parts[i].replacement_part_number = partNumber

\* The groups of the categories of an index page are stored.
GroupsPersisted(url) ==
    LET cats == parseIndexPage(Site(url))
    IN \A i \in 1..Len(cats) : \E g \in groups : g.id = cats[i].id

\* The subgroups and diagrams of the sections of a listing page are stored.
SectionsPersisted(url) ==
    LET sections == parseDetailListSections(Site(url))
    IN IF Len(sections) <= 1
       THEN /\ \E sg \in subgroups : sg.id = BasePath(url)
            /\ (Len(sections) = 1 /\ sections[1].imageUrl) =>
                   \E d \in diagrams : d.id = BasePath(url)
       ELSE \A i \in 1..Len(sections) :
               /\ \E sg \in subgroups : sg.id = SectionId(url, sections[i])
               /\ \E d \in diagrams : d.id = SectionId(url, sections[i])

\* The parts of a detail page are stored, all under one existing diagram.
PartsPersisted(url) ==
    LET ps == Site(url).parts
    IN ps # <<>> =>
         \E d \in diagrams : \A i \in 1..Len(ps) : PartKept(ps[i].partNumber, d.id)

\* Every link of the page has a CrawlState.
LinksRecorded(url) ==
    \A i \in 1..Len(LinksOf(url)) : getUrlStatus(LinksOf(url)[i]) # "none"

\* C5: a url whose status is completed has its page's records stored (the
\* groups of an index page, the subgroups and diagrams of a listing page, the
\* parts of a detail page) and its links recorded, at every point a run can
\* be killed at.
C5_CompletedIsProcessed ==
    \A u \in Urls : getUrlStatus(u) = "completed" =>
        /\ u = IndexUrl => GroupsPersisted(u)
        /\ isSubcategoryListing(Site(u), u) => SectionsPersisted(u)
        /\ hasPartsTable(Site(u)) => PartsPersisted(u)
        /\ LinksRecorded(u)

\* C5, without the groups of the index page (holds: markUrlCompleted is the
\* last write of processPage's caller).
C5_CompletedAfterPageRecords ==
    \A u \in Urls : getUrlStatus(u) = "completed" =>
        /\ isSubcategoryListing(Site(u), u) => SectionsPersisted(u)
        /\ hasPartsTable(Site(u)) => PartsPersisted(u)
        /\ LinksRecorded(u)

\* The position of the first x in s, 0 when there is none.
Pos(s, x) ==
    IF \E i \in 1..Len(s) : s[i] = x
    THEN CHOOSE i \in 1..Len(s) : s[i] = x /\ \A k \in 1..(i - 1) : s[k] # x
    ELSE 0

\* A step in which a fetch of the queue loop fails.
QueueFetchFails == pc = "fetch" /\ failures' = failures + 1

\* The row of url records an error.
ErrorRecorded(prog, url) ==
    \E i \in 1..Len(prog) : prog[i].url = url /\ prog[i].error # ""

\* A failed fetch is a value the queue loop goes on from: the url is failed
\* with its error, the queue is as it was, and the loop takes the next url.
FailedFetchIsRecorded ==
    [][(QueueFetchFails /\ ProcessStep) =>
          /\ StatusIn(progress', cur) = "failed"
          /\ ErrorRecorded(progress', cur)
          /\ urlQueue' = urlQueue
          /\ pc' = "queue"]_vars

\* When the queue loop is over, every url queued in the run is completed or
\* failed.
QueueWalked ==
    pc \in {"merge", "images"} =>
        \A u \in Range(runQueued) : getUrlStatus(u) \in {"completed", "failed"}

\* A page with nothing the parsers recognise.
Unparseable(url) == Site(url) = EmptyPage

FoundOn(page, a) ==
    IF page = IndexUrl /\ Pos(runFetched, IndexUrl) > 0 /\ IndexUrl \notin Range(runQueued)
    THEN [i \in 1..Len(parseIndexPage(Site(page))) |->
             getUrlWithFrame(parseIndexPage(Site(page))[i].url)]
    ELSE LinksOf(page)

\* C7: the queue is the tail of what the run has queued; the urls are
\* fetched in the order they were queued in; a url is fetched only when every
\* url queued before it is fetched or completed; the urls found on one page
\* are queued in the page's order, after those of every page fetched before.
C7_FetchedInDiscoveryOrder ==
    /\ Len(urlQueue) <= Len(runQueued)
    /\ urlQueue = SubSeq(runQueued, Len(runQueued) - Len(urlQueue) + 1, Len(runQueued))
    /\ Len(runFrom) = Len(runQueued)
    /\ \A i, j \in 1..Len(runFetched) :
          (i < j /\ Pos(runQueued, runFetched[i]) > 0 /\ Pos(runQueued, runFetched[j]) > 0)
              => Pos(runQueued, runFetched[i]) < Pos(runQueued, runFetched[j])
    /\ \A j \in 1..Len(runFetched) : \A q \in 1..Len(runQueued) :
          (Pos(runQueued, runFetched[j]) > 0 /\ q < Pos(runQueued, runFetched[j]))
              => \/ \E i \in 1..(j - 1) : runFetched[i] = runQueued[q]
                 \/ getUrlStatus(runQueued[q]) = "completed"
    /\ \A a, b \in 1..Len(runQueued) :
          (a < b /\ Len(runFrom) = Len(runQueued)) =>
              /\ runFrom[b] = NoText => runFrom[a] = NoText
              /\ (runFrom[a] # NoText /\ runFrom[a] = runFrom[b]) =>
                     /\ Pos(FoundOn(runFrom[a], a), runQueued[a]) > 0
                     /\ Pos(FoundOn(runFrom[a], a), runQueued[a])
                            < Pos(FoundOn(runFrom[b], b), runQueued[b])
              /\ (runFrom[a] # NoText /\ runFrom[a] # runFrom[b]) =>
                     /\ Pos(runFetched, runFrom[a]) > 0
                     /\ Pos(runFetched, runFrom[a]) < Pos(runFetched, runFrom[b])

\* C7 witness: the queue loop is over after urls found on two pages, two of
\* them on one page, were queued and fetched.
C7_Witness ==
    /\ pc = "merge"
    /\ Len(runFetched) >= 5
    /\ \E a, b, c \in 1..Len(runQueued) :
          /\ a < b /\ b < c
          /\ runFrom[a] # NoText
          /\ runFrom[a] = runFrom[b]
          /\ runFrom[b] # runFrom[c]
          /\ {runQueued[a], runQueued[b], runQueued[c]} \subseteq Range(runFetched)

\* The page being processed is a detail page whose id has a mapping.
MappedDetail ==
    /\ cur # NoText
    /\ hasPartsTable(Site(cur))
    /\ DetailOf(cur) # NoText
    /\ DetailOf(cur) \in DOMAIN diagramGroupMap

FallbackSteps == {"missGroup", "missSubgroup", "missDiagram", "missParts"}

AfterParts == {"links", "complete"}

\* C8: a detail page whose id has a mapping never enters the fallback; the
\* step that writes its parts writes no group, subgroup or diagram; after
\* it, every part of the page has a row under the mapped diagram and subgroup.
C8_MappedPartsUnderMapping ==
    /\ [](pc \in FallbackSteps => ~MappedDetail)
    /\ [][(pc = "hitParts" /\ ProcessStep) =>
            groups' = groups /\ subgroups' = subgroups /\ diagrams' = diagrams]_vars
    /\ []((pc \in AfterParts /\ MappedDetail) =>
            \A i \in 1..Len(Site(cur).parts) : \E k \in 1..Len(parts) :
                /\ parts[k].part_number = Site(cur).parts[i].partNumber
                /\ parts[k].diagram_id = diagramGroupMap[DetailOf(cur)].diagramId
                /\ parts[k].subgroup_id = diagramGroupMap[DetailOf(cur)].subgroupId)

\* C8 witness: the parts of a mapped detail page have been written, and the
\* mapped diagram is not the fallback diagram.
C8_Witness ==
    /\ pc = "complete"
    /\ MappedDetail
    /\ Site(cur).parts # <<>>
    /\ diagramGroupMap[DetailOf(cur)].diagramId # BasePath(cur)
    /\ \E k \in 1..Len(parts) :
          parts[k].diagram_id = diagramGroupMap[DetailOf(cur)].diagramId

\* The page being processed is a detail page whose id has no mapping.
UnmappedDetail ==
    /\ cur # NoText
    /\ hasPartsTable(Site(cur))
    /\ DetailOf(cur) # NoText
    /\ DetailOf(cur) \notin DOMAIN diagramGroupMap

\* The group, the subgroup and the diagram groupSlug/subgroupSlug of the page.
FallbackEnsured ==
    /\ \E g \in groups : g.id = GroupOf(cur)
    /\ \E sg \in subgroups : sg.id = Join(GroupOf(cur), SubgroupOf(cur))
    /\ \E d \in diagrams : d.id = Join(GroupOf(cur), SubgroupOf(cur))

\* C9: for a detail page whose id has no mapping, the group, the subgroup
\* and the diagram groupSlug/subgroupSlug exist before a part is written;
\* after the write every part of the page has a row under that diagram; the
\* page is never marked failed by processing it, and is marked completed.
C9_UnmappedPartsUnderFallback ==
    /\ [][(UnmappedDetail /\ pc \in FallbackSteps /\ parts' # parts) => FallbackEnsured]_vars
    /\ []((pc \in AfterParts /\ UnmappedDetail) =>
            /\ FallbackEnsured
            /\ \A i \in 1..Len(Site(cur).parts) : \E k \in 1..Len(parts) :
                  /\ parts[k].part_number = Site(cur).parts[i].partNumber
                  /\ parts[k].diagram_id = Join(GroupOf(cur), SubgroupOf(cur)))
    /\ [][(UnmappedDetail /\ pc \in FallbackSteps \cup AfterParts /\ ProcessStep) =>
            /\ StatusIn(progress', cur) # "failed"
            /\ pc' \in FallbackSteps \cup AfterParts \cup {"queue"}
            /\ pc = "complete" => StatusIn(progress', cur) = "completed"]_vars

\* C9 witness: an unmapped detail page has been marked completed with its
\* parts under the fallback diagram.
C9_Witness ==
    /\ pc = "queue"
    /\ UnmappedDetail
    /\ getUrlStatus(cur) = "completed"
    /\ Site(cur).parts # <<>>
    /\ \A i \in 1..Len(Site(cur).parts) : \E k \in 1..Len(parts) :
          /\ parts[k].part_number = Site(cur).parts[i].partNumber
          /\ parts[k].diagram_id = Join(GroupOf(cur), SubgroupOf(cur))
          /\ parts[k].detail_page_id = DetailOf(cur)

\* C10: no two parts rows have the same part number and diagram, and no two
\* have the same id.
C10_PartPairUnique ==
    \A i, j \in 1..Len(parts) :
        (\/ parts[i].part_number = parts[j].part_number
            /\ parts[i].diagram_id = parts[j].diagram_id
         \/ parts[i].id = parts[j].id) => i = j

\* C10 witness: one diagram holds rows of two detail pages that both list
\* MD100001, so one insert of that pair was dropped; the repair pass has
\* copied rows under a second diagram and the merge has folded a replacement.
C10_Witness ==
    /\ \E d \in diagrams :
          /\ \E k \in 1..Len(parts) :
                parts[k].diagram_id = d.id /\ parts[k].detail_page_id = Detail1
          /\ \E k \in 1..Len(parts) :
                parts[k].diagram_id = d.id /\ parts[k].detail_page_id = Detail2
          /\ Cardinality({k \in 1..Len(parts) :
                parts[k].diagram_id = d.id /\ parts[k].part_number = "MD100001"}) = 1
    /\ \E k \in 1..Len(parts) : parts[k].replacement_part_number # ""
    /\ \E k, m \in 1..Len(parts) :
          /\ parts[k].detail_page_id = parts[m].detail_page_id
          /\ parts[k].part_number = parts[m].part_number
          /\ parts[k].diagram_id # parts[m].diagram_id

\* ------------------------------------------------ cross-diagram repair
\* The listing pages of the site with several sections.
MultiSectionPages ==
    {u \in Urls : isSubcategoryListing(Site(u), u)
                  /\ Len(parseDetailListSections(Site(u))) > 1}

\* The diagrams minted from the sections of listing page u that reference
\* detail id d.
SharingDiagrams(u, d) ==
    LET sections == parseDetailListSections(Site(u))
    IN {SectionId(u, sections[i]) :
           i \in {k \in 1..Len(sections) : d \in Range(sections[k].detailPageIds)}}

\* The detail ids referenced by two or more sections of listing page u.
SharedOn(u) ==
    LET sections == parseDetailListSections(Site(u))
        all == UNION {Range(sections[i].detailPageIds) : i \in 1..Len(sections)}
    IN {d \in all : Cardinality(SharingDiagrams(u, d)) > 1}

\* The part numbers of the rows stored with detail id d.
PartNumbersOf(rows, d) ==
    {rows[k].part_number : k \in {i \in 1..Len(rows) : rows[i].detail_page_id = d}}

\* rows holds part number pn under diagram x.
HoldsUnder(rows, pn, x) ==
    \E k \in 1..Len(rows) : rows[k].part_number = pn /\ rows[k].diagram_id = x

\* The repair pass ran last and fetched the listing page of every path.
RepairedAll == repair.ran /\ repair.fetched = Range(PathsWithMultipleDiagrams)

\* C11: after a run of the repair pass that fetched every listing page, for
\* every detail id shared by sections of a listing page whose rows are
\* stored under at least one of the sharing diagrams, every sharing diagram
\* holds a row for each part number stored with that detail id.
C11_RepairCompletesSharing ==
    RepairedAll =>
        \A u \in MultiSectionPages : \A d \in SharedOn(u) :
            (\E k \in 1..Len(parts) : /\ parts[k].detail_page_id = d
                                     /\ parts[k].diagram_id \in SharingDiagrams(u, d))
            => \A x \in SharingDiagrams(u, d) : \A pn \in PartNumbersOf(parts, d) :
                  HoldsUnder(parts, pn, x)

\* s is the beginning of t.
IsPrefix(s, t) == Len(s) <= Len(t) /\ SubSeq(t, 1, Len(s)) = s

\* C12: a run of the repair pass leaves every row of parts as it is and only
\* adds rows after them; a second run on the store a run has left, fetching
\* no page the first did not fetch, adds no row.
C12_RepairIsIdempotent ==
    /\ [][repair'.ran => IsPrefix(parts, parts')]_vars
    /\ [](repair.ran =>
            \A fetchedPaths \in SUBSET repair.fetched :
                FixPaths(PartsTable, PathsWithMultipleDiagrams, fetchedPaths) = PartsTable)

\* C12 witness: the repair pass has run and has put the parts of a shared
\* detail page under a second section diagram.
C12_Witness ==
    /\ repair.ran
    /\ repair.fetched # {}
    /\ \E k, m \in 1..Len(parts) :
          /\ parts[k].detail_page_id = Detail2
          /\ parts[m].detail_page_id = Detail2
          /\ parts[k].part_number = parts[m].part_number
          /\ parts[k].diagram_id = Join(BasePath(ListUrl), SlugA)
          /\ parts[m].diagram_id = Join(BasePath(ListUrl), SlugB)

\* ------------------------------------------------- replacement merge pass
\* The pass as a function of the parts table: the tables of at most
\* MaxMergeRows rows under one diagram, each row replacing no row, a row
\* inserted before it or a row that is not there, some with a replacement
\* number already set.
MaxMergeRows == 3

MergePartNumbers == <<"MD100001", "MD200002", "MD999999", "MD300003", "MD400004">>

MergeRow(i, rep, rpn) ==
    [id |-> i,
     detail_page_id |-> Detail2,
     part_number |-> MergePartNumbers[i],
     data |-> "seal",
     diagram_id |-> BasePath(ListUrl),
     group_id |-> GroupSlug,
     subgroup_id |-> BasePath(ListUrl),
     replacement_part_number |-> rpn,
     replaces_id |-> rep]

MergeTables ==
    UNION {{[i \in 1..n |-> MergeRow(i, reps[i], rpns[i])] :
               reps \in {r \in [1..n -> 0..(n + 1)] : \A i \in 1..n : r[i] < i \/ r[i] = n + 1},
               rpns \in [1..n -> {"", "MD000000"}]} :
           n \in 0..MaxMergeRows}

InitMerge ==
    /\ parts \in MergeTables
    /\ nextPartId = Len(parts) + 1
    /\ pc = "mergeInput"
    /\ progress = <<>>
    /\ groups = {}
    /\ subgroups = {}
    /\ diagrams = {}
    /\ urlQueue = <<>>
    /\ diagramGroupMap = EmptyMap
    /\ cur = NoText
    /\ idx = 0
    /\ crashes = 0
    /\ failures = 0
    /\ lastFetch = NoText
    /\ runQueued = <<>>
    /\ runFrom = <<>>
    /\ runFetched = <<>>
    /\ runStart = [pending |-> {}, completed |-> {}, failed |-> {}]
    /\ repair = NoRepair
    /\ fetcher = NewFetcher
    /\ parse = NoParse
    /\ schema = CurrentSchema
    /\ tui = NoScreen

\* The pass runs on the table.
MergePass ==
    /\ pc = "mergeInput"
    /\ parts' = MergeReplaces(parts)
    /\ pc' = "merged"
    /\ UNCHANGED <<progress, groups, subgroups, diagrams, nextPartId, urlQueue,
                   diagramGroupMap, cur, idx, history, fetcher, parse, schema, tui>>

\* The pass runs again on the table it left.
MergePassAgain ==
    /\ pc = "merged"
    /\ parts' = MergeReplaces(parts)
    /\ pc' = "mergedTwice"
    /\ UNCHANGED <<progress, groups, subgroups, diagrams, nextPartId, urlQueue,
                   diagramGroupMap, cur, idx, history, fetcher, parse, schema, tui>>

NextMerge == MergePass \/ MergePassAgain

SpecMerge == InitMerge /\ [][NextMerge]_vars

\* rows has a row with this id.
HasId(rows, id) == \E k \in 1..Len(rows) : rows[k].id = id

\* The row of rows with this id.
RowOf(rows, id) == rows[CHOOSE k \in 1..Len(rows) : rows[k].id = id]

\* C13: after the pass, every row A that a row B referred to as the row it
\* replaces is there with B's part number as its replacement part number,
\* B's row is gone, and no row refers to a row it replaces.
C13_MergeResolvesReferences ==
    [][pc = "mergeInput" =>
         /\ \A a, b \in 1..Len(parts) :
               parts[b].replaces_id = parts[a].id =>
                  /\ HasId(parts', parts[a].id)
                  /\ RowOf(parts', parts[a].id).replacement_part_number = parts[b].part_number
                  /\ ~HasId(parts', parts[b].id)
         /\ \A k \in 1..Len(parts') : parts'[k].replaces_id = 0]_vars

\* No row is replaced by two rows, and no row that replaces one is replaced.
PairsOnly(rows) ==
    \A a, b \in 1..Len(rows) :
        rows[b].replaces_id = rows[a].id =>
           /\ rows[a].replaces_id = 0
           /\ \A c \in 1..Len(rows) : rows[c].replaces_id = rows[a].id => c = b

\* C13 for tables whose references are pairs (holds).
C13_MergeResolvesPairs ==
    [][(pc = "mergeInput" /\ PairsOnly(parts)) =>
         /\ \A a, b \in 1..Len(parts) :
               parts[b].replaces_id = parts[a].id =>
                  /\ HasId(parts', parts[a].id)
                  /\ RowOf(parts', parts[a].id).replacement_part_number = parts[b].part_number
                  /\ ~HasId(parts', parts[b].id)
         /\ \A k \in 1..Len(parts') : parts'[k].replaces_id = 0]_vars

\* No row of rows refers to a row it replaces.
NoReferences(rows) == \A k \in 1..Len(rows) : rows[k].replaces_id = 0

\* C14: the pass changes no row of a table in which no row refers to a row
\* it replaces, and the pass run on the table a pass has left changes nothing.
C14_MergeIsIdempotent ==
    /\ [][(pc \in {"mergeInput", "merged"} /\ NoReferences(parts)) => parts' = parts]_vars
    /\ [][pc = "merged" => parts' = parts]_vars

\* C14 witness: the pass has run twice on a table with a replacement number
\* it has set and one that was set before.
C14_Witness ==
    /\ pc = "mergedTwice"
    /\ \E k, m \in 1..Len(parts) :
          /\ parts[k].replacement_part_number = "MD200002"
          /\ parts[m].replacement_part_number = "MD000000"

\* ------------------------------------------------- rate-limited fetcher
MaxBackoffs == 11
MaxSuccesses == 2

\* fetch(url), answered with a page.
FetchOk ==
    /\ fetcher.successes < MaxSuccesses
    /\ \E d \in Relaxed(fetcher.currentDelay) :
          fetcher' = [currentDelay |-> d,
                      waited |-> fetcher.currentDelay,
                      result |-> "ok",
                      consecutiveFailures |-> 0,
                      successes |-> fetcher.successes + 1]
    /\ UNCHANGED <<store, memory, history, parse, schema, tui>>

\* fetch(url), answered with HTTP 429 or not at all.
FetchFail ==
    /\ fetcher.consecutiveFailures < MaxBackoffs
    /\ fetcher' = [fetcher EXCEPT !.currentDelay = BackedOff(fetcher.currentDelay),
                                  !.waited = fetcher.currentDelay,
                                  !.result = "error",
                                  !.consecutiveFailures = @ + 1]
    /\ UNCHANGED <<store, memory, history, parse, schema, tui>>

NextFetcher == FetchOk \/ FetchFail

SpecFetcher == Init /\ [][NextFetcher]_vars

RECURSIVE Scaled(_, _)
\* d * 1.5^k
Scaled(d, k) == IF k = 0 THEN d ELSE Scaled((d \div 2) * 3 + ((d % 2) * 3) \div 2, k - 1)

\* min(maxDelay, 3000 * 1.5^k)
AfterFailures(k) == Min(maxDelay * PerMs, Scaled(3000 * PerMs, k))

\* C15: while no fetch has succeeded, after k failed fetches currentDelay is
\* min(maxDelay, 3000 * 1.5^k), and the first three failed fetches have
\* waited 3000, 4500 and 6750 ms.
C15_BackoffSeries ==
    (fetcher.successes = 0) =>
       /\ fetcher.currentDelay = AfterFailures(fetcher.consecutiveFailures)
       /\ fetcher.consecutiveFailures = 1 => fetcher.waited = 3000 * PerMs
       /\ fetcher.consecutiveFailures = 2 => fetcher.waited = 4500 * PerMs
       /\ fetcher.consecutiveFailures = 3 => fetcher.waited = 6750 * PerMs

\* C15 witness: ten fetches have failed and none has succeeded; the tenth
\* product is above maxDelay.
C15_Witness ==
    /\ fetcher.successes = 0
    /\ fetcher.consecutiveFailures = 10
    /\ fetcher.waited < maxDelay * PerMs
    /\ fetcher.currentDelay = maxDelay * PerMs

\* C16: currentDelay is always between minDelay and maxDelay; a successful
\* fetch does not increase it, a failed fetch does not decrease it, and a
\* failed fetch returns a failure.
C16_DelayWithinBounds ==
    /\ [](minDelay * PerMs <= fetcher.currentDelay /\ fetcher.currentDelay <= maxDelay * PerMs)
    /\ [][fetcher'.successes = fetcher.successes + 1 =>
             fetcher'.currentDelay <= fetcher.currentDelay]_vars
    /\ [][fetcher'.consecutiveFailures = fetcher.consecutiveFailures + 1 =>
             /\ fetcher'.currentDelay >= fetcher.currentDelay
             /\ fetcher'.result = "error"]_vars

\* C16 witness: after a successful fetch, failed fetches have brought
\* currentDelay up to maxDelay.
C16_Witness ==
    /\ fetcher.successes > 0
    /\ fetcher.result = "error"
    /\ fetcher.currentDelay = maxDelay * PerMs

\* ---------------------------------------------------------------- parser
\* The texts of the parser (the cells of a parts table, the headings of a
\* listing page) are sequences of Unicode code points, written here with
\* the text they stand for.

\* The character classes of the regular expressions: [A-Z], [a-z], \d, \s.
Ch == [upper |-> 65..90, lower |-> 97..122, digit |-> 48..57, space |-> {32, 9, 10, 13}]

\* String.prototype.toLowerCase, for Latin and Russian letters.
toLowerCase(s) ==
    [k \in 1..Len(s) |->
        IF s[k] \in Ch.upper \cup (1040..1071) THEN s[k] + 32
        ELSE IF s[k] = 1025 THEN 1105
        ELSE s[k]]

\* oemPattern.test(cell):  /^[A-Z]{1,3}\d{5,}[A-Z0-9]*$|^[A-Z]{2}[A-Z0-9]{4,}$/
oemPattern(cell) ==
    LET n == Len(cell)
        alnum(k) == cell[k] \in Ch.upper \cup Ch.digit
    IN \/ \E a \in 1..3 :
             /\ n >= a + 5
             /\ \A k \in 1..a : cell[k] \in Ch.upper
             /\ \A k \in (a + 1)..(a + 5) : cell[k] \in Ch.digit
             /\ \A k \in (a + 6)..n : alnum(k)
       \/ /\ n >= 6
          /\ cell[1] \in Ch.upper
          /\ cell[2] \in Ch.upper
          /\ \A k \in 3..n : alnum(k)

\* parseInt(s) of a trimmed text without a 0x prefix: <<n>>, or <<>> for NaN.
parseInt(s) ==
    LET n == Len(s)
        signed == n > 0 /\ s[1] \in {43, 45}
        from == IF signed THEN 2 ELSE 1
        \* the last of the digits that follow the sign
        to == CHOOSE e \in (from - 1)..n :
                 /\ \A k \in from..e : s[k] \in Ch.digit
                 /\ e < n => s[e + 1] \notin Ch.digit
        RECURSIVE value(_)
        value(e) == IF e < from THEN 0 ELSE value(e - 1) * 10 + (s[e] - 48)
    IN IF to < from THEN <<>>
       ELSE IF signed /\ s[1] = 45 THEN <<0 - value(to)>>
       ELSE <<value(to)>>

\* The words of /^(no|pnc|oem|required|name|spec|notes|color)$/i.
HeaderWords == {<<110, 111>>,
                <<112, 110, 99>>,
                <<111, 101, 109>>,
                <<114, 101, 113, 117, 105, 114, 101, 100>>,
                <<110, 97, 109, 101>>,
                <<115, 112, 101, 99>>,
                <<110, 111, 116, 101, 115>>,
                <<99, 111, 108, 111, 114>>}

\* cleanField of parsePartsPage
cleanField(val) ==
    IF val = NoText THEN NoText
    ELSE IF toLowerCase(val) \in HeaderWords THEN NoText
    ELSE IF Includes(toLowerCase(val), <<112, 101, 114, 32, 99, 97, 114>>) THEN NoText   \* "per car"
    ELSE val

\* cleanPnc of parsePartsPage:  /^\d{5}[A-Z0-9]{0,2}$/i, /^\d{4}[A-Z0-9]?$/i
cleanPnc(val) ==
    LET n == Len(val)
        shape(digits, more) ==
            /\ n >= digits
            /\ n <= digits + more
            /\ \A k \in 1..digits : val[k] \in Ch.digit
            /\ \A k \in (digits + 1)..n : val[k] \in Ch.upper \cup Ch.lower \cup Ch.digit
    IN IF shape(5, 2) \/ shape(4, 1) THEN val ELSE NoText

\* utils.ts cleanDescription
cleanDescription(description) ==
    LET RECURSIVE commas(_)
        \* .replace(/,(?!\s)/g, ", ")
        commas(s) ==
            IF s = <<>> THEN <<>>
            ELSE IF s[1] = 44 /\ (Len(s) = 1 \/ s[2] \notin Ch.space)
                 THEN <<44, 32>> \o commas(Tail(s))
                 ELSE <<s[1]>> \o commas(Tail(s))
        RECURSIVE spaces(_)
        \* .replace(/\s{2,}/g, " ")
        spaces(s) ==
            IF s = <<>> THEN <<>>
            ELSE IF s[1] \in Ch.space /\ Len(s) > 1 /\ s[2] \in Ch.space
                 THEN LET rest == spaces(Tail(s))
                      IN <<32>> \o Tail(rest)
                 ELSE <<s[1]>> \o spaces(Tail(s))
        RECURSIVE trim(_)
        trim(s) ==
            IF s = <<>> THEN <<>>
            ELSE IF s[1] \in Ch.space THEN trim(Tail(s))
            ELSE IF s[Len(s)] \in Ch.space THEN trim(SubSeq(s, 1, Len(s) - 1))
            ELSE s
    IN IF description = NoText THEN NoText ELSE trim(spaces(commas(description)))

\* scanCell.match(dateRangePattern)[0], or null:
\*   /\d{4}[\.\/-]\d{1,2}[\.\/-]?\d{0,2}\s*[-~]\s*\d{4}[\.\/-]\d{1,2}/
\* The first match is the leftmost one and, the last \d{1,2} being greedy,
\* the longest of those that start there.
dateRangePattern(cell) ==
    LET n == Len(cell)
        digits(a, b) == b <= n /\ \A k \in a..b : cell[k] \in Ch.digit
        sep(k) == k <= n /\ cell[k] \in {46, 47, 45}
        \* the first place at or after k that holds no white space
        skip(k) == CHOOSE m \in k..(n + 1) :
                      /\ \A j \in k..(m - 1) : cell[j] \in Ch.space
                      /\ m <= n => cell[m] \notin Ch.space
        span(a, d1, p, d2, d3) ==
            LET b == a + 5 + d1          \* after \d{4}[\.\/-]\d{1,2}
                c == b + p + d2          \* after [\.\/-]?\d{0,2}
                t == IF c <= n + 1 THEN skip(c) ELSE n + 2
                y == IF t <= n THEN skip(t + 1) ELSE n + 2
            IN IF /\ digits(a, a + 3)
                  /\ sep(a + 4)
                  /\ digits(a + 5, b - 1)
                  /\ p = 1 => sep(b)
                  /\ digits(b + p, c - 1)
                  /\ t <= n
                  /\ cell[t] \in {45, 126}
                  /\ digits(y, y + 3)
                  /\ sep(y + 4)
                  /\ digits(y + 5, y + 4 + d3)
               THEN <<a, y + 4 + d3>>
               ELSE <<>>
        matches ==
            {span(a, d1, p, d2, d3) :
                a \in 1..n, d1 \in 1..2, p \in 0..1, d2 \in 0..2, d3 \in 1..2} \ {<<>>}
    IN IF matches = {} THEN NoText
       ELSE LET first == CHOOSE m \in matches :
                            \A o \in matches : m[1] < o[1] \/ (m[1] = o[1] /\ m[2] >= o[2])
            IN SubSeq(cell, first[1], first[2])

\* The cell is skipped as a header: it includes "oem" or "part number".
IsHeaderCell(cell) ==
    \/ Includes(toLowerCase(cell), <<111, 101, 109>>)           \* "oem"
    \/ Includes(toLowerCase(cell), <<112, 97, 114, 116, 32, 110, 117, 109, 98, 101, 114>>)    \* "part number"

\* Mutant: the scan does not stop at the next part number.
modelDateRange_NoStop(allCells, i) ==
    LET last == Min(i + 15, Len(allCells))
        found(j) == allCells[j] # NoText /\ dateRangePattern(allCells[j]) # NoText
        ends == {j \in (i + 1)..last : found(j)}
    IN IF ends = {} THEN NoText
       ELSE dateRangePattern(allCells[CHOOSE j \in ends : \A e \in ends : j <= e])

\* The scan of the cells after the anchor at i for modelDateRange.
modelDateRange(allCells, i) ==
    LET last == Min(i + 15, Len(allCells))
        found(j) == allCells[j] # NoText /\ dateRangePattern(allCells[j]) # NoText
        next(j) ==
            /\ allCells[j] # NoText
            /\ j > i + 6
            /\ oemPattern(allCells[j])
            /\ ~Includes(toLowerCase(allCells[j]), <<111, 101, 109>>)
        ends == {j \in (i + 1)..last : found(j) \/ next(j)}
    IN IF ends = {} THEN NoText
       ELSE dateRangePattern(allCells[CHOOSE j \in ends : \A e \in ends : j <= e])

\* The cell at i is used as an anchor.
IsAnchor(allCells, i) ==
    /\ oemPattern(allCells[i])
    /\ ~IsHeaderCell(allCells[i])
    /\ Len(allCells[i]) >= 5

\* The cell at j, null when there is none or it is empty.
CellAt(allCells, j) == IF j >= 1 /\ j <= Len(allCells) THEN allCells[j] ELSE NoText

\* Mutant: quantity and description are read from each other's cell.
PartAt_Swapped(allCells, i) ==
    [partNumber |-> allCells[i],
     pnc |-> cleanPnc(CellAt(allCells, i - 1)),
     description |-> cleanDescription(cleanField(CellAt(allCells, i + 1))),
     refNumber |-> cleanField(CellAt(allCells, i - 2)),
     quantity |-> IF parseInt(CellAt(allCells, i + 2)) = <<0>> THEN <<>>
                  ELSE parseInt(CellAt(allCells, i + 2)),
     spec |-> cleanField(CellAt(allCells, i + 3)),
     notes |-> cleanField(CellAt(allCells, i + 4)),
     color |-> cleanField(CellAt(allCells, i + 5)),
     modelDateRange |-> modelDateRange(allCells, i)]

\* The part pushed for the anchor at i; quantity is <<n>>, or <<>> for null.
PartAt(allCells, i) ==
    [partNumber |-> allCells[i],
     pnc |-> cleanPnc(CellAt(allCells, i - 1)),
     description |-> cleanDescription(cleanField(CellAt(allCells, i + 2))),
     refNumber |-> cleanField(CellAt(allCells, i - 2)),
     quantity |-> IF parseInt(CellAt(allCells, i + 1)) = <<0>> THEN <<>>
                  ELSE parseInt(CellAt(allCells, i + 1)),
     spec |-> cleanField(CellAt(allCells, i + 3)),
     notes |-> cleanField(CellAt(allCells, i + 4)),
     color |-> cleanField(CellAt(allCells, i + 5)),
     modelDateRange |-> modelDateRange(allCells, i)]

\* The places of the anchors, in order.
Anchors(allCells) ==
    SelectSeq([k \in 1..Len(allCells) |-> k], LAMBDA k : IsAnchor(allCells, k))

\* Mutant: a part number returned by an earlier call is not returned again.
parsePartsTable_SkipSeen(allCells) ==
    LET seen == UNION {{parse.returned[r].parts[k].partNumber :
                           k \in 1..Len(parse.returned[r].parts)} :
                       r \in 1..Len(parse.returned)}
        kept == SelectSeq(Anchors(allCells), LAMBDA i : allCells[i] \notin seen)
    IN [k \in 1..Len(kept) |-> PartAt(allCells, kept[k])]

\* parsePartsPage: the parts found in the cells of table.top_cars.
parsePartsTable(allCells) ==
    [k \in 1..Len(Anchors(allCells)) |-> PartAt(allCells, Anchors(allCells)[k])]

\* utils.ts slugify
slugify(text) ==
    LET cyrillicMap ==
            << <<97>>, <<98>>, <<118>>, <<103>>, <<100>>, <<101>>, <<122, 104>>, <<122>>,
               <<105>>, <<121>>, <<107>>, <<108>>, <<109>>, <<110>>, <<111>>, <<112>>,
               <<114>>, <<115>>, <<116>>, <<117>>, <<102>>, <<107, 104>>, <<116, 115>>, <<99, 104>>,
               <<115, 104>>, <<115, 104, 99, 104>>, <<>>, <<121>>, <<>>, <<101>>, <<121, 117>>, <<121, 97>>
               >>
        latin(c) == IF c \in 1072..1103 THEN cyrillicMap[c - 1071]
                    ELSE IF c \in 1040..1071 THEN cyrillicMap[c - 1039]
                    ELSE IF c \in {1025, 1105} THEN <<101>>
                    ELSE <<c>>
        RECURSIVE mapped(_)
        mapped(s) == IF s = <<>> THEN <<>> ELSE latin(s[1]) \o mapped(Tail(s))
        RECURSIVE dashed(_)
        \* .replace(/[^a-z0-9]+/g, "-").replace(/-+/g, "-")
        dashed(s) ==
            IF s = <<>> THEN <<>>
            ELSE IF s[1] \in Ch.lower \cup Ch.digit THEN <<s[1]>> \o dashed(Tail(s))
            ELSE LET rest == dashed(Tail(s))
                 IN IF rest # <<>> /\ rest[1] = 45 THEN rest ELSE <<45>> \o rest
        \* .replace(/^-|-$/g, "")
        trimmed(s) ==
            LET t == IF s # <<>> /\ s[1] = 45 THEN Tail(s) ELSE s
            IN IF t # <<>> /\ t[Len(t)] = 45 THEN SubSeq(t, 1, Len(t) - 1) ELSE t
    IN trimmed(dashed(toLowerCase(mapped(text))))

\* href.match(/\/(\d+(?:,\d+)*)\/?(?:\?|$)/): the first group of the leftmost
\* match, or no text. The group is a whole run of digits and commas after a
\* "/", made of numbers separated by single commas, and what follows it is
\* an optional "/" and then a "?" or the end of the href.
DetailIdMatch(href) ==
    LET n == Len(href)
        inRun(c) == c \in 48..57 \/ c = 44
        runEnd(p) ==
            IF \E e \in p..n : ~inRun(href[e])
            THEN (CHOOSE e \in p..n : ~inRun(href[e]) /\ \A f \in p..(e - 1) : inRun(href[f])) - 1
            ELSE n
        wellFormed(a, b) ==
            /\ a <= b
            /\ href[a] # 44
            /\ href[b] # 44
            /\ \A f \in a..(b - 1) : ~(href[f] = 44 /\ href[f + 1] = 44)
        closes(e) ==
            \/ e = n
            \/ href[e + 1] = 63
            \/ href[e + 1] = 47 /\ (e + 1 = n \/ href[e + 2] = 63)
        matches(p) == href[p] = 47 /\ wellFormed(p + 1, runEnd(p + 1)) /\ closes(runEnd(p + 1))
    IN IF \E p \in 1..n : matches(p)
       THEN LET p == CHOOSE q \in 1..n : matches(q) /\ \A o \in 1..(q - 1) : ~matches(o)
            IN SubSeq(href, p + 1, runEnd(p + 1))
       ELSE NoText

\* parseDetailListSections with one Set of ids for the whole page.
DetailListSections_DedupAcross(tds) ==
    LET headed(td) == td.heading # NoText /\ slugify(td.heading) # NoText
        kept == SelectSeq(tds, headed)
        ids(k) == SelectSeq([i \in 1..Len(kept[k].hrefs) |-> DetailIdMatch(kept[k].hrefs[i])],
                            LAMBDA id : id # NoText)
        before(k) == UNION {Range(ids(j)) : j \in 1..(k - 1)}
    IN [k \in 1..Len(kept) |->
           [heading |-> kept[k].heading,
            slug |-> slugify(kept[k].heading),
            imageUrl |-> kept[k].image,
            detailPageIds |-> SelectSeq(Dedup(ids(k)), LAMBDA id : id \notin before(k))]]

\* parseDetailListSections on the td.detail-list cells of a page, each with
\* the trimmed text of its first h4, its image and the hrefs of its a and
\* area elements in document order.
DetailListSections(tds) ==
    LET headed(td) == td.heading # NoText /\ slugify(td.heading) # NoText
        kept == SelectSeq(tds, headed)
        ids(k) == SelectSeq([i \in 1..Len(kept[k].hrefs) |-> DetailIdMatch(kept[k].hrefs[i])],
                            LAMBDA id : id # NoText)
    IN [k \in 1..Len(kept) |->
           [heading |-> kept[k].heading,
            slug |-> slugify(kept[k].heading),
            imageUrl |-> kept[k].image,
            detailPageIds |-> Dedup(ids(k))]]

\* ---------------------------------------------------------- parser links
\* getVehicleUrlPattern() with FRAME_NAME and TRIM_CODE unset:
\* "/delica_space_gear/pd6w/hseue9/"
getVehicleUrlPattern ==
    <<47, 100, 101, 108, 105, 99, 97, 95, 115, 112, 97, 99, 101, 95, 103, 101, 97, 114, 47, 112, 100, 54, 119, 47, 104, 115, 101, 117, 101, 57, 47>>

\* String.prototype.startsWith
StartsWith(text, prefix) == Len(prefix) <= Len(text) /\ SubSeq(text, 1, Len(prefix)) = prefix

\* new URL(url).pathname.split("/").filter(Boolean) of an absolute url: the
\* runs of characters other than "/" between the host and the first "?" or
\* "#".
PathParts(url) ==
    LET n == Len(url)
        hostFrom == (CHOOSE p \in 1..n : SubSeq(url, p, p + 2) = <<58, 47, 47>>
                                         /\ \A o \in 1..(p - 1) : SubSeq(url, o, o + 2) # <<58, 47, 47>>) + 3
        stops == {p \in hostFrom..n : url[p] \in {63, 35}}
        to == IF stops = {} THEN n ELSE (CHOOSE p \in stops : \A o \in stops : p <= o) - 1
        slashes == {p \in hostFrom..to : url[p] = 47}
        starts == {p \in (hostFrom + 1)..to : url[p] # 47 /\ url[p - 1] = 47}
        endOf(p) == IF \E e \in slashes : e > p
                    THEN (CHOOSE e \in slashes : e > p /\ \A f \in slashes : f > p => e <= f) - 1
                    ELSE to
        nth(k) == CHOOSE p \in starts : Cardinality({o \in starts : o < p}) = k - 1
    IN IF slashes = {} THEN <<>>
       ELSE [k \in 1..Cardinality(starts) |-> SubSeq(url, nth(k), endOf(nth(k)))]

\* isSubcategoryListing(html, url) on a page given by whether it has a parts
\* table and by its a and area elements in document order, each with its
\* href (no text when the attribute is missing).
SubcategoryListing(table, elements, url) ==
    LET pathParts == PathParts(url)
    IN /\ ~table
       /\ Len(pathParts) >= 5
       /\ \E i \in 1..Len(elements) :
             /\ elements[i].tag = "a"
             /\ elements[i].href # NoText
             /\ Includes(elements[i].href, pathParts[5])
             /\ DetailIdMatch(elements[i].href) # NoText

\* new URL(href, baseUrl).toString().split("#")[0] for an href that is
\* absolute, starts with "//", starts with "/", or is relative to the
\* directory of baseUrl (no "." or ".." segment).
CleanUrl(href, baseUrl) ==
    LET pathFrom == (CHOOSE p \in 1..Len(baseUrl) :
                        /\ SubSeq(baseUrl, p, p + 2) = <<58, 47, 47>>
                        /\ \A o \in 1..(p - 1) : SubSeq(baseUrl, o, o + 2) # <<58, 47, 47>>) + 3
        origin == LET ends == {p \in pathFrom..Len(baseUrl) : baseUrl[p] = 47}
                  IN IF ends = {} THEN baseUrl
                     ELSE SubSeq(baseUrl, 1, (CHOOSE p \in ends : \A o \in ends : p <= o) - 1)
        scheme == SubSeq(baseUrl, 1, pathFrom - 3)
        query == {p \in 1..Len(baseUrl) : baseUrl[p] \in {63, 35}}
        path == IF query = {} THEN baseUrl
                ELSE SubSeq(baseUrl, 1, (CHOOSE p \in query : \A o \in query : p <= o) - 1)
        dirEnds == {p \in 1..Len(path) : path[p] = 47}
        directory == SubSeq(path, 1, CHOOSE p \in dirEnds : \A o \in dirEnds : o <= p)
        absolute == IF Includes(href, <<58, 47, 47>>) /\ ~StartsWith(href, <<47>>) THEN href
                    ELSE IF StartsWith(href, <<47, 47>>) THEN scheme \o <<58>> \o href
                    ELSE IF StartsWith(href, <<47>>) THEN origin \o href
                    ELSE directory \o href
        hashes == {p \in 1..Len(absolute) : absolute[p] = 35}
    IN IF hashes = {} THEN absolute
       ELSE SubSeq(absolute, 1, (CHOOSE p \in hashes : \A o \in hashes : p <= o) - 1)


\* parseCategoryPage(html, baseUrl) on the a and area elements of a page:
\* the a elements first, then the area elements, each kept link once.
CategoryPageLinks(elements, baseUrl) ==
    LET vehiclePattern == getVehicleUrlPattern
        \* amayama.com
        amayama == <<97, 109, 97, 121, 97, 109, 97, 46, 99, 111, 109>>
        \* /quick/
        quick == <<47, 113, 117, 105, 99, 107, 47>>
        \* epc-data.com
        epcData == <<101, 112, 99, 45, 100, 97, 116, 97, 46, 99, 111, 109>>
        \* javascript:
        javascript == <<106, 97, 118, 97, 115, 99, 114, 105, 112, 116, 58>>
        skipped(href) ==
            \/ href = <<47>>
            \/ href = <<46, 46, 47>>
            \/ StartsWith(href, <<35>>)
            \/ StartsWith(href, javascript)
            \/ Includes(href, amayama)
            \/ Includes(href, quick)
            \/ Includes(href, epcData) /\ ~Includes(href, vehiclePattern)
        followed(el) ==
            /\ el.href # NoText
            /\ Includes(el.href, vehiclePattern)
            /\ el.tag = "a" => ~skipped(el.href)
        ofTag(tag) == SelectSeq(elements, LAMBDA el : el.tag = tag /\ followed(el))
        kept == ofTag("a") \o ofTag("area")
    IN Dedup([i \in 1..Len(kept) |-> CleanUrl(kept[i].href, baseUrl)])


\* ---------------------------------------------------------- parser calls
\* The number of calls with the same arguments.
MaxCalls == 2
\* The number of td.detail-list cells of a listing page.
MaxSections == 3

\* The calls of parsePartsPage: the cells are those of a table with or
\* without its header cells, one record and what follows it.
\*   header : "No" "PNC#" "OEM part number" "Required per car" "Name" "Spec"
\*            "Notes" "Color" "Price"
\*   leads  : the cells before the OEM cell, "04403" or "No", then "02878C"
\*            or "PNC#"; or "02878C" alone; or none
\*   oems   : "MD123456", "REQUIRED", "OEM12345"
\*   quantities : "2", "0", "-"
\*   names  : "Bolt, Flange", "BOLT,FLANGE", "Name"
\*   rests  : "M8" "" "Black"; "Spec" "Required per car" "Color"
\*   follows : nothing; the date range "1994.05-1997.06" and a price; or two
\*            empty cells and the record "04404" "02878C" "MR580153" "1"
\*            "NUT" with the date range "1997.06-1999.08"; or an empty cell,
\*            a price and the same record with its date range next to "NUT";
\*            or the cells "MR580153" "1" "NUT" "1997.06-1999.08" at once, a
\*            table without the columns between two part numbers
PartsCalls ==
    LET header ==
            << <<78, 111>>,
               <<80, 78, 67, 35>>,
               <<79, 69, 77, 32, 112, 97, 114, 116, 32, 110, 117, 109, 98, 101, 114>>,
               <<82, 101, 113, 117, 105, 114, 101, 100, 32, 112, 101, 114, 32, 99, 97, 114>>,
               <<78, 97, 109, 101>>,
               <<83, 112, 101, 99>>,
               <<78, 111, 116, 101, 115>>,
               <<67, 111, 108, 111, 114>>,
               <<80, 114, 105, 99, 101>> >>
        leads ==
            {<<no, pnc>> : no \in {<<48, 52, 52, 48, 51>>, <<78, 111>>},
                           pnc \in {<<48, 50, 56, 55, 56, 67>>, <<80, 78, 67, 35>>}}
            \cup {<< <<48, 50, 56, 55, 56, 67>> >>, <<>>}
        oems ==
            {<<77, 68, 49, 50, 51, 52, 53, 54>>,
             <<82, 69, 81, 85, 73, 82, 69, 68>>,
             <<79, 69, 77, 49, 50, 51, 52, 53>>}
        quantities == {<<50>>, <<48>>, <<45>>}
        names ==
            {<<66, 111, 108, 116, 44, 32, 70, 108, 97, 110, 103, 101>>,
             <<66, 79, 76, 84, 44, 70, 76, 65, 78, 71, 69>>,
             <<78, 97, 109, 101>>}
        rests ==
            {<< <<77, 56>>,
             <<>>,
             <<66, 108, 97, 99, 107>> >>,
             << <<83, 112, 101, 99>>,
             <<82, 101, 113, 117, 105, 114, 101, 100, 32, 112, 101, 114, 32, 99, 97, 114>>,
             <<67, 111, 108, 111, 114>> >>}
        follows ==
            {<<>>,
             << <<49, 57, 57, 52, 46, 48, 53, 45, 49, 57, 57, 55, 46, 48, 54>>,
             <<49, 50, 46, 53, 48>> >>,
             << <<>>,
             <<>>,
             <<48, 52, 52, 48, 52>>,
             <<48, 50, 56, 55, 56, 67>>,
             <<77, 82, 53, 56, 48, 49, 53, 51>>,
             <<49>>,
             <<78, 85, 84>>,
             <<>>,
             <<>>,
             <<>>,
             <<49, 57, 57, 55, 46, 48, 54, 45, 49, 57, 57, 57, 46, 48, 56>> >>,
             << <<>>,
             <<49, 50, 46, 53, 48>>,
             <<48, 52, 52, 48, 52>>,
             <<48, 50, 56, 55, 56, 67>>,
             <<77, 82, 53, 56, 48, 49, 53, 51>>,
             <<49>>,
             <<78, 85, 84>>,
             <<49, 57, 57, 55, 46, 48, 54, 45, 49, 57, 57, 57, 46, 48, 56>> >>,
             << <<77, 82, 53, 56, 48, 49, 53, 51>>,
             <<49>>,
             <<78, 85, 84>>,
             <<49, 57, 57, 55, 46, 48, 54, 45, 49, 57, 57, 57, 46, 48, 56>> >>}
    IN {[fn |-> "parsePartsPage",
         args |-> [allCells |-> head \o lead \o <<oem, quantity, name>> \o rest \o follow,
                   diagramId |-> diagramId],
         returned |-> <<>>] :
           head \in {<<>>, header}, lead \in leads, oem \in oems, quantity \in quantities,
           name \in names, rest \in rests, follow \in follows,
           diagramId \in {Detail1, Join(GroupSlug, SubgroupSlug)}}

\* The calls of parseDetailListSections: a listing page of up to MaxSections
\* cells, each with one of the headings Cyrillic "Skhema 1", Cyrillic
\* "Skhema 2", "Front (LH)", "Front LH", "***", or without a heading. The
\* k-th cell links to the detail page k twice, as "/k" and "/k/", and to an
\* anchor "/k#top"; or it links to the detail page 1, to "/k?frame=1", to the
\* pair of pages "/1,k/" and to the detail page 1 again.
SectionsCalls ==
    LET headings ==
            {<<1057, 1093, 1077, 1084, 1072, 32, 49>>,
             <<1057, 1093, 1077, 1084, 1072, 32, 50>>,
             <<70, 114, 111, 110, 116, 32, 40, 76, 72, 41>>,
             <<70, 114, 111, 110, 116, 32, 76, 72>>,
             <<42, 42, 42>>,
             NoText}
        own(k) == << <<47, 48 + k>>, <<47, 48 + k, 47>>, <<47, 48 + k, 35, 116, 111, 112>> >>
        shared(k) == << <<47, 49>>,
                        <<47, 48 + k, 63, 102, 114, 97, 109, 101, 61, 49>>,
                        <<47, 49, 44, 48 + k, 47>>,
                        <<47, 49>> >>
        listings(n) ==
            {[k \in 1..n |-> [heading |-> h[k], image |-> TRUE,
                              hrefs |-> IF l[k] THEN shared(k) ELSE own(k)]] :
                h \in [1..n -> headings], l \in [1..n -> BOOLEAN]}
    IN {[fn |-> "parseDetailListSections", args |-> [tds |-> tds], returned |-> <<>>] :
           tds \in UNION {listings(n) : n \in 0..MaxSections}}

\* The number of a and area elements of a page.
MaxElements == 2

\* The calls of isSubcategoryListing and of parseCategoryPage: a page with or
\* without a parts table and with up to MaxElements a and area elements.
\* isSubcategoryListing is called on the urls
\*   https://mitsubishi.epc-data.com/delica_space_gear/pd6w/hseue9/lubrication/?frame_no=1
\*   https://mitsubishi.epc-data.com/delica_space_gear/pd6w/hseue9/lubrication/pump/?frame_no=1
\*   https://mitsubishi.epc-data.com/delica_space_gear/pd6w/hseue9/lubrication/pump/123/?frame_no=1
\* with elements whose hrefs are
\*   /delica_space_gear/pd6w/hseue9/lubrication/pump/123/
\*   /delica_space_gear/pd6w/hseue9/lubrication/oil-pump/456/
\*   /delica_space_gear/pd6w/hseue9/lubrication/pump/
\*   123,124/?frame_no=1
\*   (no href attribute)
\* parseCategoryPage is called on the first of these urls, with the hrefs
\*   /
\*   #top
\*   javascript:void(0)
\*   https://www.amayama.com/en/catalogs/mitsubishi/delica_space_gear/pd6w/hseue9/
\*   /delica_space_gear/pd6w/hseue9/quick/
\*   https://mitsubishi.epc-data.com/pajero/v45w/
\*   /delica_space_gear/pd6w/hseue9/lubrication/pump/
\*   https://mitsubishi.epc-data.com/delica_space_gear/pd6w/hseue9/lubrication/pump/#list
\*   https://parts.example.com/delica_space_gear/pd6w/hseue9/lubrication/
\*   pump/123/
LinkCalls ==
    LET urls ==
            {<<104, 116, 116, 112, 115, 58, 47, 47, 109, 105, 116, 115, 117, 98, 105, 115, 104, 105, 46, 101, 112, 99, 45, 100, 97, 116, 97, 46, 99, 111, 109, 47, 100, 101, 108, 105, 99, 97, 95, 115, 112, 97, 99, 101, 95, 103, 101, 97, 114, 47, 112, 100, 54, 119, 47, 104, 115, 101, 117, 101, 57, 47, 108, 117, 98, 114, 105, 99, 97, 116, 105, 111, 110, 47, 63, 102, 114, 97, 109, 101, 95, 110, 111, 61, 49>>,
             <<104, 116, 116, 112, 115, 58, 47, 47, 109, 105, 116, 115, 117, 98, 105, 115, 104, 105, 46, 101, 112, 99, 45, 100, 97, 116, 97, 46, 99, 111, 109, 47, 100, 101, 108, 105, 99, 97, 95, 115, 112, 97, 99, 101, 95, 103, 101, 97, 114, 47, 112, 100, 54, 119, 47, 104, 115, 101, 117, 101, 57, 47, 108, 117, 98, 114, 105, 99, 97, 116, 105, 111, 110, 47, 112, 117, 109, 112, 47, 63, 102, 114, 97, 109, 101, 95, 110, 111, 61, 49>>,
             <<104, 116, 116, 112, 115, 58, 47, 47, 109, 105, 116, 115, 117, 98, 105, 115, 104, 105, 46, 101, 112, 99, 45, 100, 97, 116, 97, 46, 99, 111, 109, 47, 100, 101, 108, 105, 99, 97, 95, 115, 112, 97, 99, 101, 95, 103, 101, 97, 114, 47, 112, 100, 54, 119, 47, 104, 115, 101, 117, 101, 57, 47, 108, 117, 98, 114, 105, 99, 97, 116, 105, 111, 110, 47, 112, 117, 109, 112, 47, 49, 50, 51, 47, 63, 102, 114, 97, 109, 101, 95, 110, 111, 61, 49>>}
        listingHrefs ==
            {<<47, 100, 101, 108, 105, 99, 97, 95, 115, 112, 97, 99, 101, 95, 103, 101, 97, 114, 47, 112, 100, 54, 119, 47, 104, 115, 101, 117, 101, 57, 47, 108, 117, 98, 114, 105, 99, 97, 116, 105, 111, 110, 47, 112, 117, 109, 112, 47, 49, 50, 51, 47>>,
             <<47, 100, 101, 108, 105, 99, 97, 95, 115, 112, 97, 99, 101, 95, 103, 101, 97, 114, 47, 112, 100, 54, 119, 47, 104, 115, 101, 117, 101, 57, 47, 108, 117, 98, 114, 105, 99, 97, 116, 105, 111, 110, 47, 111, 105, 108, 45, 112, 117, 109, 112, 47, 52, 53, 54, 47>>,
             <<47, 100, 101, 108, 105, 99, 97, 95, 115, 112, 97, 99, 101, 95, 103, 101, 97, 114, 47, 112, 100, 54, 119, 47, 104, 115, 101, 117, 101, 57, 47, 108, 117, 98, 114, 105, 99, 97, 116, 105, 111, 110, 47, 112, 117, 109, 112, 47>>,
             <<49, 50, 51, 44, 49, 50, 52, 47, 63, 102, 114, 97, 109, 101, 95, 110, 111, 61, 49>>,
             <<>>}
        categoryHrefs ==
            {<<47>>,
             <<35, 116, 111, 112>>,
             <<106, 97, 118, 97, 115, 99, 114, 105, 112, 116, 58, 118, 111, 105, 100, 40, 48, 41>>,
             <<104, 116, 116, 112, 115, 58, 47, 47, 119, 119, 119, 46, 97, 109, 97, 121, 97, 109, 97, 46, 99, 111, 109, 47, 101, 110, 47, 99, 97, 116, 97, 108, 111, 103, 115, 47, 109, 105, 116, 115, 117, 98, 105, 115, 104, 105, 47, 100, 101, 108, 105, 99, 97, 95, 115, 112, 97, 99, 101, 95, 103, 101, 97, 114, 47, 112, 100, 54, 119, 47, 104, 115, 101, 117, 101, 57, 47>>,
             <<47, 100, 101, 108, 105, 99, 97, 95, 115, 112, 97, 99, 101, 95, 103, 101, 97, 114, 47, 112, 100, 54, 119, 47, 104, 115, 101, 117, 101, 57, 47, 113, 117, 105, 99, 107, 47>>,
             <<104, 116, 116, 112, 115, 58, 47, 47, 109, 105, 116, 115, 117, 98, 105, 115, 104, 105, 46, 101, 112, 99, 45, 100, 97, 116, 97, 46, 99, 111, 109, 47, 112, 97, 106, 101, 114, 111, 47, 118, 52, 53, 119, 47>>,
             <<47, 100, 101, 108, 105, 99, 97, 95, 115, 112, 97, 99, 101, 95, 103, 101, 97, 114, 47, 112, 100, 54, 119, 47, 104, 115, 101, 117, 101, 57, 47, 108, 117, 98, 114, 105, 99, 97, 116, 105, 111, 110, 47, 112, 117, 109, 112, 47>>,
             <<104, 116, 116, 112, 115, 58, 47, 47, 109, 105, 116, 115, 117, 98, 105, 115, 104, 105, 46, 101, 112, 99, 45, 100, 97, 116, 97, 46, 99, 111, 109, 47, 100, 101, 108, 105, 99, 97, 95, 115, 112, 97, 99, 101, 95, 103, 101, 97, 114, 47, 112, 100, 54, 119, 47, 104, 115, 101, 117, 101, 57, 47, 108, 117, 98, 114, 105, 99, 97, 116, 105, 111, 110, 47, 112, 117, 109, 112, 47, 35, 108, 105, 115, 116>>,
             <<104, 116, 116, 112, 115, 58, 47, 47, 112, 97, 114, 116, 115, 46, 101, 120, 97, 109, 112, 108, 101, 46, 99, 111, 109, 47, 100, 101, 108, 105, 99, 97, 95, 115, 112, 97, 99, 101, 95, 103, 101, 97, 114, 47, 112, 100, 54, 119, 47, 104, 115, 101, 117, 101, 57, 47, 108, 117, 98, 114, 105, 99, 97, 116, 105, 111, 110, 47>>,
             <<112, 117, 109, 112, 47, 49, 50, 51, 47>>}
        pages(hrefs) ==
            UNION {[1..n -> [tag : {"a", "area"}, href : hrefs]] : n \in 0..MaxElements}
    IN {[fn |-> "isSubcategoryListing", args |-> [table |-> t, elements |-> e, url |-> u], returned |-> <<>>] :
           t \in BOOLEAN, e \in pages(listingHrefs), u \in urls}
       \cup
       {[fn |-> "parseCategoryPage", args |-> [elements |-> e, baseUrl |-> <<104, 116, 116, 112, 115, 58, 47, 47, 109, 105, 116, 115, 117, 98, 105, 115, 104, 105, 46, 101, 112, 99, 45, 100, 97, 116, 97, 46, 99, 111, 109, 47, 100, 101, 108, 105, 99, 97, 95, 115, 112, 97, 99, 101, 95, 103, 101, 97, 114, 47, 112, 100, 54, 119, 47, 104, 115, 101, 117, 101, 57, 47, 108, 117, 98, 114, 105, 99, 97, 116, 105, 111, 110, 47, 63, 102, 114, 97, 109, 101, 95, 110, 111, 61, 49>>], returned |-> <<>>] :
           e \in pages(categoryHrefs)}

\* isSubcategoryListing(html, url)
IsSubcategoryListing ==
    /\ parse.fn = "isSubcategoryListing"
    /\ Len(parse.returned) < MaxCalls
    /\ parse' = [parse EXCEPT !.returned =
                    Append(@, SubcategoryListing(parse.args.table, parse.args.elements, parse.args.url))]
    /\ UNCHANGED <<store, memory, history, fetcher, schema, tui>>

\* parseCategoryPage(html, baseUrl)
ParseCategoryPage ==
    /\ parse.fn = "parseCategoryPage"
    /\ Len(parse.returned) < MaxCalls
    /\ parse' = [parse EXCEPT !.returned =
                    Append(@, CategoryPageLinks(parse.args.elements, parse.args.baseUrl))]
    /\ UNCHANGED <<store, memory, history, fetcher, schema, tui>>

InitParser ==
    /\ parse \in PartsCalls \cup SectionsCalls \cup LinkCalls
    /\ progress = <<>>
    /\ groups = <<>>
    /\ subgroups = <<>>
    /\ diagrams = <<>>
    /\ parts = <<>>
    /\ nextPartId = 1
    /\ pc = "idle"
    /\ urlQueue = <<>>
    /\ diagramGroupMap = EmptyMap
    /\ cur = NoText
    /\ idx = 0
    /\ crashes = 0
    /\ failures = 0
    /\ lastFetch = NoText
    /\ runQueued = <<>>
    /\ runFrom = <<>>
    /\ runFetched = <<>>
    /\ runStart = [pending |-> {}, completed |-> {}, failed |-> {}]
    /\ repair = NoRepair
    /\ fetcher = NewFetcher
    /\ schema = CurrentSchema
    /\ tui = NoScreen

\* parsePartsPage(html, baseUrl, diagramId)
ParsePartsPage ==
    /\ parse.fn = "parsePartsPage"
    /\ Len(parse.returned) < MaxCalls
    /\ parse' = [parse EXCEPT !.returned =
                    Append(@, [diagram |-> [id |-> parse.args.diagramId],
                               parts |-> parsePartsTable(parse.args.allCells)])]
    /\ UNCHANGED <<store, memory, history, fetcher, schema, tui>>

\* parseDetailListSections(html, baseUrl)
ParseDetailListSections ==
    /\ parse.fn = "parseDetailListSections"
    /\ Len(parse.returned) < MaxCalls
    /\ parse' = [parse EXCEPT !.returned = Append(@, DetailListSections(parse.args.tds))]
    /\ UNCHANGED <<store, memory, history, fetcher, schema, tui>>

NextParser ==
    \/ ParsePartsPage
    \/ ParseDetailListSections
    \/ IsSubcategoryListing
    \/ ParseCategoryPage

SpecParser == InitParser /\ [][NextParser]_vars

\* The results of the calls of parsePartsPage in hand.
PartsReturned ==
    IF parse.fn = "parsePartsPage"
    THEN {parse.returned[r].parts : r \in 1..Len(parse.returned)}
    ELSE {}

IsHeaderField(text) ==
    \/ toLowerCase(text) \in HeaderWords
    \/ Includes(toLowerCase(text), <<112, 101, 114, 32, 99, 97, 114>>)

\* C18: no part returned by parsePartsPage has column-header text as its
\* partNumber.
C18_NoHeaderAsPartNumber ==
    \A returned \in PartsReturned :
        \A k \in 1..Len(returned) :
            ~(IsHeaderField(returned[k].partNumber) \/ IsHeaderCell(returned[k].partNumber))

\* The places of the cells of OEM part-number shape.
OemPlaces(allCells) == {i \in 1..Len(allCells) : oemPattern(allCells[i])}

\* The integer a cell of digits stands for, <<>> for an empty cell.
RECURSIVE IntegerValue(_)
IntegerValue(cell) ==
    IF cell = <<>> THEN <<>>
    ELSE IF Len(cell) = 1 THEN <<cell[1] - 48>>
    ELSE <<IntegerValue(SubSeq(cell, 1, Len(cell) - 1))[1] * 10 + (cell[Len(cell)] - 48)>>

Unless(dropped, text) == IF dropped THEN NoText ELSE text

C20_SectionsHaveDistinctSlugs ==
    (/\ parse.fn = "parseDetailListSections"
     /\ \A j, k \in 1..Len(parse.args.tds) :
           /\ parse.args.tds[k].heading # NoText
           /\ j # k => parse.args.tds[j].heading # parse.args.tds[k].heading)
    => \A r \in 1..Len(parse.returned) :
          LET sections == parse.returned[r]
          IN /\ Len(sections) = Len(parse.args.tds)
             /\ \A k \in 1..Len(sections) :
                   /\ sections[k].heading = parse.args.tds[k].heading
                   /\ sections[k].slug # NoText
                   /\ sections[k].slug = slugify(sections[k].heading)
             /\ \A j, k \in 1..Len(sections) : j # k => sections[j].slug # sections[k].slug

\* ---------------------------------------------------------------------------
\* The schema migrations: a database file made by an older version is brought
\* to the current tables and columns by runMigrations, which createSchema calls
\* and the migrate command calls once more.

\* migrateReplacesIdToReplacementPartNumber(client, partsColumns)
migrateReplacesIdToReplacementPartNumber(db, partsColumns) ==
    IF "replaces_id" \notin partsColumns THEN db
    ELSE [db EXCEPT !.parts = MergeReplaces(db.parts),
                    !.schema.partsColumns = @ \ {"replaces_id"}]

\* populatePartsGroupIds(client).  The two subqueries name group_id and
\* subgroup_id without a table: where the diagrams table has no such column
\* the name is the column of the parts row being updated.
populatePartsGroupIds(db) ==
    LET linked(p) == {k \in 1..Len(db.diagrams) : db.diagrams[k].id = p.diagram_id}
        from(p, column) ==
            IF linked(p) = {} THEN NoText
            ELSE IF column \in db.schema.diagramsColumns
                 THEN db.diagrams[CHOOSE k \in linked(p) : TRUE][column]
                 ELSE p[column]
        needsProcessing == \E k \in 1..Len(db.parts) : db.parts[k].group_id = NoText
    IN IF ~needsProcessing THEN db
       ELSE [db EXCEPT !.parts =
                [k \in 1..Len(db.parts) |->
                    IF db.parts[k].group_id = NoText
                    THEN [db.parts[k] EXCEPT
                             !.group_id = from(db.parts[k], "group_id"),
                             !.subgroup_id = from(db.parts[k], "subgroup_id")]
                    ELSE db.parts[k]]]

\* migrateCategoriestoGroupsSubgroups(client).  The INSERT INTO subgroups names
\* no path: it throws where the column is NOT NULL, and what was written before
\* it stays written.
migrateCategoriestoGroupsSubgroups(db) ==
    LET diagramsCols == db.schema.diagramsColumns
        top == SelectSeq(db.schema.categories, LAMBDA c : c.parent_id = NoText)
        sub == SelectSeq(db.schema.categories, LAMBDA c : c.parent_id # NoText)
        inserts == db.groups = <<>> /\ db.schema.hasCategories
        groups1 == IF inserts
                   THEN [k \in 1..Len(top) |-> [id |-> top[k].id, name |-> top[k].name]]
                   ELSE db.groups
        throws == inserts /\ sub # <<>> /\ db.schema.subgroupsPath = "not null"
        subgroups1 == IF inserts
                      THEN db.subgroups \o
                           [k \in 1..Len(sub) |->
                               [id |-> sub[k].id, group_id |-> sub[k].parent_id,
                                path |-> NoText]]
                      ELSE db.subgroups
        subgroupOf(d) == {k \in 1..Len(subgroups1) : subgroups1[k].id = d.category_id}
        toSubgroup(d) ==
            IF subgroupOf(d) = {} THEN d
            ELSE [d EXCEPT !.subgroup_id = d.category_id,
                           !.group_id = subgroups1[CHOOSE k \in subgroupOf(d) : TRUE].group_id]
        toGroup(d) ==
            IF \E k \in 1..Len(groups1) : groups1[k].id = d.category_id
            THEN [d EXCEPT !.group_id = d.category_id, !.subgroup_id = NoText]
            ELSE d
        diagrams1 ==
            IF "category_id" \in diagramsCols
            THEN [k \in 1..Len(db.diagrams) |->
                     [toGroup(toSubgroup(db.diagrams[k])) EXCEPT !.category_id = NoText]]
            ELSE db.diagrams
        diagramsCols1 ==
            IF "category_id" \in diagramsCols
            THEN (diagramsCols \cup {"group_id", "subgroup_id"}) \ {"category_id"}
            ELSE diagramsCols
    IN IF ~db.schema.hasCategories /\ "category_id" \notin diagramsCols THEN db
       ELSE IF throws
       THEN [db EXCEPT !.groups = groups1, !.schema.failed = TRUE]
       ELSE [db EXCEPT !.groups = groups1, !.subgroups = subgroups1,
                       !.diagrams = diagrams1,
                       !.schema.diagramsColumns = diagramsCols1,
                       !.schema.categories = <<>>,
                       !.schema.hasCategories = FALSE]

\* runMigrations(client)
runMigrations(db) ==
    LET partsColumns == db.schema.partsColumns
        newPartsColumns == {"detail_page_id", "pnc", "spec", "color", "model_date_range",
                            "group_id", "subgroup_id", "replacement_part_number"}
        added == [db EXCEPT !.schema.partsColumns =
                               (@ \cup newPartsColumns) \ {"price_usd"},
                            !.schema.failed = FALSE]
        merged == migrateReplacesIdToReplacementPartNumber(added, partsColumns)
        populated == populatePartsGroupIds(merged)
        dropped == [populated EXCEPT !.schema.partsColumns = @ \ {"description_ja"}]
        pathed == IF dropped.schema.subgroupsPath = "absent"
                  THEN [dropped EXCEPT
                           !.schema.subgroupsPath = "null",
                           !.subgroups =
                               [k \in 1..Len(dropped.subgroups) |->
                                   IF dropped.subgroups[k].path = NoText
                                   THEN [dropped.subgroups[k] EXCEPT
                                            !.path = dropped.subgroups[k].id]
                                   ELSE dropped.subgroups[k]]]
                  ELSE dropped
    IN migrateCategoriestoGroupsSubgroups(pathed)

\* A database file as the program may find it: made by the current createSchema
\* or by an older one, with the missing tables created.
InitMigrate ==
    /\ LET LegacyDatabases ==
            {[schema |->
                 [partsColumns |->
                      ((CurrentSchema.partsColumns \ (IF partsLegacy
                                        THEN {"group_id", "subgroup_id", "replacement_part_number"}
                                        ELSE {}))
                       \cup (IF replaces # "none" THEN {"replaces_id"} ELSE {})
                       \cup (IF priceUsd THEN {"price_usd"} ELSE {})
                       \cup (IF descriptionJa THEN {"description_ja"} ELSE {})),
                  diagramsColumns |->
                      IF categories # "none"
                      THEN (CurrentSchema.diagramsColumns \ {"group_id", "subgroup_id"}) \cup {"category_id"}
                      ELSE CurrentSchema.diagramsColumns,
                  subgroupsPath |-> path,
                  categories |->
                      IF categories = "none" THEN <<>>
                      ELSE <<[id |-> GroupSlug, name |-> "engine", parent_id |-> NoText]>> \o
                           (IF categories = "nested"
                            THEN <<[id |-> BasePath(ListUrl), name |-> "seals",
                                    parent_id |-> GroupSlug]>>
                            ELSE <<>>),
                  hasCategories |-> categories # "none",
                  calls |-> 0, failed |-> FALSE],
              parts |->
                  [i \in 1..(IF replaces = "rows" THEN 2 ELSE 1) |->
                      [MergeRow(i, IF i = 2 THEN 1 ELSE 0, "") EXCEPT
                          !.group_id = IF partsLegacy THEN NoText ELSE @,
                          !.subgroup_id = IF partsLegacy THEN NoText ELSE @]],
              diagrams |->
                  <<[id |-> BasePath(ListUrl),
                     category_id |-> IF categories = "flat" THEN GroupSlug
                                     ELSE IF categories = "nested" THEN BasePath(ListUrl)
                                     ELSE NoText,
                     group_id |-> IF categories = "none" THEN GroupSlug ELSE NoText,
                     subgroup_id |-> IF categories = "none" THEN BasePath(ListUrl) ELSE NoText]>>,
              groups |-> IF categories = "none"
                         THEN <<[id |-> GroupSlug, name |-> "engine"]>> ELSE <<>>,
              subgroups |-> IF categories = "none"
                            THEN <<[id |-> BasePath(ListUrl), group_id |-> GroupSlug,
                                    path |-> IF path = "absent" THEN NoText ELSE BasePath(ListUrl)]>>
                            ELSE <<>>] :
                partsLegacy \in BOOLEAN, replaces \in {"none", "column", "rows"},
                priceUsd \in BOOLEAN, descriptionJa \in BOOLEAN,
                categories \in {"none", "flat", "nested"}, path \in {"not null", "absent"}}
       IN \E db \in LegacyDatabases :
             /\ schema = db.schema
             /\ parts = db.parts
             /\ diagrams = db.diagrams
             /\ groups = db.groups
             /\ subgroups = db.subgroups
    /\ nextPartId = Len(parts) + 1
    /\ pc = "idle"
    /\ progress = <<>>
    /\ urlQueue = <<>>
    /\ diagramGroupMap = EmptyMap
    /\ cur = NoText
    /\ idx = 0
    /\ crashes = 0
    /\ failures = 0
    /\ lastFetch = NoText
    /\ runQueued = <<>>
    /\ runFrom = <<>>
    /\ runFetched = <<>>
    /\ runStart = [pending |-> {}, completed |-> {}, failed |-> {}]
    /\ repair = NoRepair
    /\ fetcher = NewFetcher
    /\ parse = NoParse
    /\ tui = NoScreen

\* A call of runMigrations: createSchema makes it whenever a command opens the
\* database, and the migrate command makes it once more after that.
RunMigrations ==
    /\ schema.calls < MaxCalls
    /\ LET db == runMigrations([schema |-> schema, parts |-> parts,
                                diagrams |-> diagrams, groups |-> groups,
                                subgroups |-> subgroups])
       IN /\ schema' = [db.schema EXCEPT !.calls = schema.calls + 1]
          /\ parts' = db.parts
          /\ diagrams' = db.diagrams
          /\ groups' = db.groups
          /\ subgroups' = db.subgroups
    /\ UNCHANGED <<progress, nextPartId, memory, history, fetcher, parse, tui>>

SpecMigrate == InitMigrate /\ [][RunMigrations]_vars

\* C21: running the migrations on a database they have already migrated adds
\* and drops no column and no table and changes no row.
C21_MigrationsAreIdempotent ==
    LET once == runMigrations([schema |-> schema, parts |-> parts,
                               diagrams |-> diagrams, groups |-> groups,
                               subgroups |-> subgroups])
    IN ~once.schema.failed => runMigrations(once) = once

\* ---------------------------------------------------------------------------
\* The part-detail screen of the TUI and the note of its part.  tui.stored is
\* the content of the part's row in the notes table (NoText: no row), tui.note
\* the screen's copy of it, tui.noteInput the value of the textarea; a text is
\* a sequence of code points.

MaxNoteLen == 3

\* NewPartDetailModel(database, partID, dataPath)
NewPartDetailModel ==
    /\ ~tui.open
    /\ tui' = [tui EXCEPT !.open = TRUE, !.note = tui.stored, !.editingNote = FALSE,
                          !.noteInput = NoText, !.key = "none"]
    /\ UNCHANGED <<store, memory, history, fetcher, parse, schema>>

\* Update, but Ctrl+S writes the textarea's value as it stands.
Update_Untrimmed ==
    /\ tui.open
    /\ \E key \in {"n", "ctrl+s", "esc", "a", " ", "enter", "backspace", "up"} :
          LET isSpace(c) == c \in {9, 10, 13, 32}
              TrimSpace(t) ==
                  LET inked == {k \in 1..Len(t) : ~isSpace(t[k])}
                      lo == CHOOSE k \in inked : \A m \in inked : k <= m
                      hi == CHOOSE k \in inked : \A m \in inked : m <= k
                  IN IF inked = {} THEN <<>> ELSE SubSeq(t, lo, hi)
              content == TrimSpace(tui.noteInput)
              typed == CASE key = "n" -> <<110>>
                         [] key = "a" -> <<97>>
                         [] key = " " -> <<32>>
                         [] key = "enter" -> <<10>>
                         [] OTHER -> <<>>
              \* the textarea's own handling of a key
              noteInputUpdate ==
                  IF key = "backspace"
                  THEN SubSeq(tui.noteInput, 1, Len(tui.noteInput) - 1)
                  ELSE IF Len(tui.noteInput) < MaxNoteLen
                       THEN tui.noteInput \o typed
                       ELSE tui.noteInput
          IN tui' =
                IF tui.editingNote
                THEN IF key = "ctrl+s"
                     THEN [tui EXCEPT !.stored = tui.noteInput, !.note = content,
                                      !.editingNote = FALSE, !.key = key]
                     ELSE IF key = "esc"
                     THEN [tui EXCEPT !.editingNote = FALSE, !.key = key]
                     ELSE [tui EXCEPT !.noteInput = noteInputUpdate, !.key = key]
                ELSE IF key = "n"
                THEN [tui EXCEPT !.editingNote = TRUE, !.noteInput = tui.note,
                                 !.key = key]
                ELSE [tui EXCEPT !.key = key]
    /\ UNCHANGED <<store, memory, history, fetcher, parse, schema>>

\* PartDetailModel.Update(msg) for a key message.  The keys that move the
\* cursor, open a link or toggle the bookmark leave the note alone.
Update ==
    /\ tui.open
    /\ \E key \in {"n", "ctrl+s", "esc", "a", " ", "enter", "backspace", "up"} :
          LET isSpace(c) == c \in {9, 10, 13, 32}
              TrimSpace(t) ==
                  LET inked == {k \in 1..Len(t) : ~isSpace(t[k])}
                      lo == CHOOSE k \in inked : \A m \in inked : k <= m
                      hi == CHOOSE k \in inked : \A m \in inked : m <= k
                  IN IF inked = {} THEN <<>> ELSE SubSeq(t, lo, hi)
              content == TrimSpace(tui.noteInput)
              typed == CASE key = "n" -> <<110>>
                         [] key = "a" -> <<97>>
                         [] key = " " -> <<32>>
                         [] key = "enter" -> <<10>>
                         [] OTHER -> <<>>
              \* the textarea's own handling of a key
              noteInputUpdate ==
                  IF key = "backspace"
                  THEN SubSeq(tui.noteInput, 1, Len(tui.noteInput) - 1)
                  ELSE IF Len(tui.noteInput) < MaxNoteLen
                       THEN tui.noteInput \o typed
                       ELSE tui.noteInput
          IN tui' =
                IF tui.editingNote
                THEN IF key = "ctrl+s"
                     THEN [tui EXCEPT !.stored = content, !.note = content,
                                      !.editingNote = FALSE, !.key = key]
                     ELSE IF key = "esc"
                     THEN [tui EXCEPT !.editingNote = FALSE, !.key = key]
                     ELSE [tui EXCEPT !.noteInput = noteInputUpdate, !.key = key]
                ELSE IF key = "n"
                THEN [tui EXCEPT !.editingNote = TRUE, !.noteInput = tui.note,
                                 !.key = key]
                ELSE [tui EXCEPT !.key = key]
    /\ UNCHANGED <<store, memory, history, fetcher, parse, schema>>

SpecTui == Init /\ [][NewPartDetailModel \/ Update]_vars

\* C22: on the part-detail screen, n outside editing enters editing with the
\* editor holding the existing note, or nothing when there is none; in editing,
\* Ctrl+S with text that is not blank stores the text without its surrounding
\* white space as the note of the part, Ctrl+S with blank text deletes the
\* note, Esc leaves the stored note as it is; each of the three leaves editing.
C22_NoteEditing ==
    [][LET blank(c) == c \in {9, 10, 13, 32}
           input == tui.noteInput
           isTrimOf(t, full) ==
               /\ t # <<>>
               /\ ~blank(t[1]) /\ ~blank(t[Len(t)])
               /\ \E lead \in 0..Len(full) :
                     /\ lead + Len(t) <= Len(full)
                     /\ SubSeq(full, lead + 1, lead + Len(t)) = t
                     /\ \A k \in 1..Len(full) :
                           (k <= lead \/ k > lead + Len(t)) => blank(full[k])
       IN /\ (tui.open /\ ~tui.editingNote /\ tui'.key = "n") =>
                /\ tui'.editingNote
                /\ tui'.noteInput = tui.stored
                /\ tui'.stored = tui.stored
          /\ (tui.editingNote /\ tui'.key = "ctrl+s") =>
                /\ ~tui'.editingNote
                /\ IF \A k \in 1..Len(input) : blank(input[k])
                   THEN tui'.stored = NoText
                   ELSE isTrimOf(tui'.stored, input)
          /\ (tui.editingNote /\ tui'.key = "esc") =>
                /\ ~tui'.editingNote
                /\ tui'.stored = tui.stored]_vars

\* A note with white space around it was saved, edited again and emptied out.
C22_Witness ==
    /\ tui.key = "ctrl+s"
    /\ tui.stored = <<97>>
    /\ tui.noteInput = <<32, 97, 10>>

\* C23: when processSubgroupPage has gone through a listing page, every detail
\* id of every section of the page is mapped in diagramGroupMap to the diagram
\* and the subgroup of that section, also an id that several sections list.
C23_EverySectionMapped ==
    [][LET sections == parseDetailListSections(Site(cur))
           idOf(s) == IF Len(sections) = 1 THEN BasePath(cur) ELSE SectionId(cur, s)
           through == \/ pc = "sgDiagram"
                      \/ pc = "sgMultiDiagram" /\ idx = Len(sections)
       IN (through /\ crashes' = crashes) =>
             \A i \in 1..Len(sections) :
                \A d \in Range(sections[i].detailPageIds) :
                   /\ d \in DOMAIN diagramGroupMap'
                   /\ diagramGroupMap'[d] = [diagramId |-> idOf(sections[i]),
                                             subgroupId |-> idOf(sections[i])]]_vars

\* The same for the ids that one section of the page lists and no other does.
C23_UnsharedIdsMapped ==
    [][LET sections == parseDetailListSections(Site(cur))
           idOf(s) == IF Len(sections) = 1 THEN BasePath(cur) ELSE SectionId(cur, s)
           through == \/ pc = "sgDiagram"
                      \/ pc = "sgMultiDiagram" /\ idx = Len(sections)
           shared(d) == Cardinality({i \in 1..Len(sections) :
                                        d \in Range(sections[i].detailPageIds)}) > 1
       IN (through /\ crashes' = crashes) =>
             \A i \in 1..Len(sections) :
                \A d \in Range(sections[i].detailPageIds) :
                   ~shared(d) =>
                      /\ d \in DOMAIN diagramGroupMap'
                      /\ diagramGroupMap'[d] = [diagramId |-> idOf(sections[i]),
                                                subgroupId |-> idOf(sections[i])]]_vars

\* C24: when processSubgroupPage has gone through the listing page of path P,
\* a page of one section has exactly one subgroup and one diagram, both with
\* id P, and a page of N > 1 sections has exactly N subgroups and N diagrams,
\* with the ids P/sectionSlug, the path P and the group of the page; and in
\* every store a diagram that has a subgroup has the id of that subgroup.
C24_ListingPairs ==
    [][LET sections == parseDetailListSections(Site(cur))
           P == BasePath(cur)
           through == \/ pc = "sgSubgroup" /\ pc' # "sgDiagram"
                      \/ pc = "sgDiagram"
                      \/ pc = "sgMultiDiagram" /\ idx = Len(sections)
           ofPage == {s \in subgroups' : s.path = P}
           drawn == {d \in diagrams' : \E s \in ofPage : d.subgroup_id = s.id}
           minted == {SectionId(cur, sections[i]) : i \in 1..Len(sections)}
       IN /\ (through /\ crashes' = crashes /\ Len(sections) >= 1) =>
                IF Len(sections) = 1
                THEN /\ {s.id : s \in ofPage} = {P}
                     /\ Cardinality(drawn) = 1
                     /\ {d.id : d \in drawn} = {P}
                ELSE /\ {s.id : s \in ofPage} = minted
                     /\ Cardinality(ofPage) = Len(sections)
                     /\ {d.id : d \in drawn} = minted
                     /\ Cardinality(drawn) = Len(sections)
                     /\ \A s \in ofPage : s.group_id = GroupOf(cur)
                     /\ \A d \in drawn : d.group_id = GroupOf(cur)
          /\ \A d \in diagrams' : d.subgroup_id # NoText => d.id = d.subgroup_id]_vars

\* C24, the store: a diagram that has a subgroup has the id of that subgroup.
C24_DiagramIdIsSubgroupId ==
    \A d \in diagrams : d.subgroup_id # NoText => d.id = d.subgroup_id

\* C25: where the parts of a detail page that several sections of a listing
\* page list are stored under the fallback diagram of the path only, a run of
\* the repair pass that fetches every listing page puts them under every
\* section diagram that lists the detail page.
C25_RepairReconcilesMiss ==
    [][(repair'.ran /\ repair'.fetched = Range(PathsWithMultipleDiagrams)) =>
          \A u \in MultiSectionPages : \A d \in SharedOn(u) :
             (/\ PartNumbersOf(parts, d) # {}
              /\ \A k \in 1..Len(parts) :
                    parts[k].detail_page_id = d =>
                       parts[k].diagram_id = FallbackDiagramId(u \o <<d>>))
             => \A x \in SharingDiagrams(u, d) : \A pn \in PartNumbersOf(parts, d) :
                   HoldsUnder(parts', pn, x)]_vars

\* C26: every row the repair pass inserts, with detail id D under diagram X,
\* is under the diagram of a section of a listing page that lists D: X is
\* path/sectionSlug of a section that references D.
C26_RepairInsertsUnderReferencingSections ==
    [][repair'.ran =>
          \A k \in (Len(parts) + 1)..Len(parts') :
             \E u \in MultiSectionPages :
                parts'[k].diagram_id \in SharingDiagrams(u, parts'[k].detail_page_id)]_vars

\* ---------------------------------------------------------------------------
\* The repair pass on a store with two listing paths: the sections of both
\* pages have their subgroups and diagrams, a path may have the fallback
\* diagram of a mapping miss as well, and the parts of the detail pages of one
\* section of a page, or of none, are stored under the diagram of that section.
InitRepair ==
    /\ \E held \in [{ListUrl, OtherUrl} -> 0..3], missed \in SUBSET {ListUrl, OtherUrl} :
          LET sectionsOf(u) == parseDetailListSections(Site(u))
              numberOf(d) == CASE d = Detail1 -> "MD100001"
                               [] d = Detail2 -> "MD200002"
                               [] OTHER -> "MD999999"
              rowsOf(u) ==
                  IF held[u] = 0 THEN <<>>
                  ELSE LET section == sectionsOf(u)[held[u]]
                       IN [i \in 1..Len(section.detailPageIds) |->
                              [id |-> 0,
                               detail_page_id |-> section.detailPageIds[i],
                               part_number |-> numberOf(section.detailPageIds[i]),
                               data |-> "bolt",
                               diagram_id |-> SectionId(u, section),
                               group_id |-> GroupOf(u),
                               subgroup_id |-> SectionId(u, section),
                               replacement_part_number |-> "",
                               replaces_id |-> 0]]
              rows == rowsOf(ListUrl) \o rowsOf(OtherUrl)
          IN /\ \A u \in {ListUrl, OtherUrl} : held[u] <= Len(sectionsOf(u))
             /\ parts = [k \in 1..Len(rows) |-> [rows[k] EXCEPT !.id = k]]
             /\ groups = {[id |-> GroupOf(u), name |-> "slug"] : u \in {ListUrl, OtherUrl}}
             /\ subgroups =
                    UNION {{[id |-> SectionId(u, sectionsOf(u)[i]), group_id |-> GroupOf(u),
                             path |-> BasePath(u)] : i \in 1..Len(sectionsOf(u))} :
                           u \in {ListUrl, OtherUrl}}
                    \cup {[id |-> BasePath(u), group_id |-> GroupOf(u),
                           path |-> BasePath(u)] : u \in missed}
             /\ diagrams =
                    UNION {{[id |-> SectionId(u, sectionsOf(u)[i]), group_id |-> GroupOf(u),
                             subgroup_id |-> SectionId(u, sectionsOf(u)[i]),
                             image |-> sectionsOf(u)[i].imageUrl, image_path |-> FALSE,
                             source_url |-> u] : i \in 1..Len(sectionsOf(u))} :
                           u \in {ListUrl, OtherUrl}}
                    \cup {[id |-> BasePath(u), group_id |-> GroupOf(u),
                           subgroup_id |-> BasePath(u), image |-> FALSE,
                           image_path |-> FALSE,
                           source_url |-> u \o <<Detail3>>] : u \in missed}
    /\ nextPartId = Len(parts) + 1
    /\ pc = "idle"
    /\ progress = <<>>
    /\ urlQueue = <<>>
    /\ diagramGroupMap = EmptyMap
    /\ cur = NoText
    /\ idx = 0
    /\ crashes = 0
    /\ failures = 0
    /\ lastFetch = NoText
    /\ runQueued = <<>>
    /\ runFrom = <<>>
    /\ runFetched = <<>>
    /\ runStart = [pending |-> {}, completed |-> {}, failed |-> {}]
    /\ repair = NoRepair
    /\ fetcher = NewFetcher
    /\ parse = NoParse
    /\ schema = CurrentSchema
    /\ tui = NoScreen

SpecRepair == InitRepair /\ [][FixSharedParts]_vars

\* C27: a path whose listing page the repair pass cannot fetch, or whose page
\* has another number of sections than the path has stored diagrams, gets no
\* row; every other path gets the rows it gets when the pass runs on it alone.
C27_FailingPathIsSkipped ==
    [][repair'.ran =>
          \A k \in 1..Len(PathsWithMultipleDiagrams) :
             LET path == PathsWithMultipleDiagrams[k]
                 under(rows) ==
                     {[part_number |-> rows[i].part_number,
                       detail_page_id |-> rows[i].detail_page_id,
                       diagram_id |-> rows[i].diagram_id] :
                        i \in {j \in 1..Len(rows) :
                                  rows[j].diagram_id \in Range(DiagramsLike(path))}}
                 failing == \/ path \notin repair'.fetched
                            \/ Len(FixSections(Site(PathUrl(path)))) # Len(DiagramsLike(path))
             IN IF failing
                THEN under(parts') = under(parts)
                ELSE under(parts') = under(FixPath(PartsTable, path, TRUE).rows)]_vars

\* The pass could not fetch the page of one path and has put the parts of a
\* shared detail page of the other path under a second diagram.
C27_Witness ==
    /\ repair.ran
    /\ \E path \in Range(PathsWithMultipleDiagrams) : path \notin repair.fetched
    /\ \E i, j \in 1..Len(parts) :
          /\ parts[i].detail_page_id = parts[j].detail_page_id
          /\ parts[i].diagram_id # parts[j].diagram_id

\* C28: a stored parts row keeps every field through every step of the crawl,
\* of the image download and of the repair pass, which only add rows after it;
\* the merge pass alone deletes rows, and changes of a row it keeps nothing
\* but replacement_part_number.
C28_StoredPartIsUnchanged ==
    [][IF pc = "merge"
       THEN \A i \in 1..Len(parts) :
               \A j \in 1..Len(parts') :
                  parts'[j].id = parts[i].id =>
                     parts'[j] = [parts[i] EXCEPT !.replacement_part_number =
                                                      parts'[j].replacement_part_number]
       ELSE IsPrefix(parts, parts')]_vars

\* After a run whose merge pass has set a replacement number, the repair pass
\* has copied rows of a shared detail page under another diagram.
C28_Witness ==
    /\ repair.ran
    /\ \E k \in 1..Len(parts) : parts[k].replacement_part_number # ""
    /\ \E i, j \in 1..Len(parts) :
          /\ i < j
          /\ parts[i].part_number = parts[j].part_number
          /\ parts[i].detail_page_id = parts[j].detail_page_id
          /\ parts[i].diagram_id # parts[j].diagram_id

\* C29: in a run the merge pass starts only when the queue is empty and every
\* url queued in the run is completed or failed; once it has started, the
\* process goes on to the image download and to its end only, so that the pass
\* runs once; the image download starts from the merge pass only; and from the
\* start of the merge pass on no page is fetched and no url changes status.
C29_MergeAfterTraversal ==
    [][/\ (pc' = "merge" /\ pc # "merge") =>
             /\ pc = "queue"
             /\ urlQueue = <<>>
             /\ \A i \in 1..Len(runQueued) :
                   getUrlStatus(runQueued[i]) \in {"completed", "failed"}
       /\ pc = "merge" => pc' \in {"merge", "images", "idle"}
       /\ pc = "images" => pc' \in {"images", "idle"}
       /\ (pc' = "images" /\ pc # "images") => (pc = "merge" /\ urlQueue = <<>>)
       /\ pc \in {"merge", "images"} =>
             /\ lastFetch' = NoText
             /\ progress' = progress
             /\ runFetched' \in {runFetched, <<>>}
             /\ urlQueue' = <<>>]_vars

\* The merge pass of a run that fetched pages has run and the image download
\* is about to start.
C29_Witness ==
    /\ pc = "images"
    /\ Len(runFetched) > 1
    /\ \E k \in 1..Len(parts) : parts[k].replacement_part_number # ""

\* C30 as stated: the modelDateRange of a record that another record follows
\* is never a date range of the following record; it is the date range of a
\* cell between the two part numbers.
C30_NoDateFromNextRecord ==
    parse.fn = "parsePartsPage" =>
        \A r \in 1..Len(parse.returned) :
           LET cells == parse.args.allCells
               at == Anchors(cells)
               got == parse.returned[r].parts
           IN \A n \in 1..(Len(at) - 1) :
                 got[n].modelDateRange # NoText =>
                    \E j \in (at[n] + 1)..(at[n + 1] - 1) :
                       dateRangePattern(cells[j]) = got[n].modelDateRange

\* C30, for the records whose part numbers are more than six cells apart, the
\* offset past which the scan stops at a part number.
C30_NoDateFromNextRecordPastOffset ==
    parse.fn = "parsePartsPage" =>
        \A r \in 1..Len(parse.returned) :
           LET cells == parse.args.allCells
               at == Anchors(cells)
               got == parse.returned[r].parts
           IN \A n \in 1..(Len(at) - 1) :
                 (at[n + 1] > at[n] + 6 /\ got[n].modelDateRange # NoText) =>
                    \E j \in (at[n] + 1)..(at[n + 1] - 1) :
                       dateRangePattern(cells[j]) = got[n].modelDateRange

\* A record without a date range was returned without one, the date range of
\* the record after it being within fifteen cells of its part number.
C30_Witness ==
    /\ parse.fn = "parsePartsPage"
    /\ Len(parse.returned) > 0
    /\ LET cells == parse.args.allCells
           at == Anchors(cells)
       IN /\ Len(at) = 2
          /\ at[2] > at[1] + 6
          /\ \E j \in (at[2] + 1)..Len(cells) :
                j <= at[1] + 15 /\ dateRangePattern(cells[j]) # NoText
          /\ parse.returned[1].parts[1].modelDateRange = NoText
          /\ parse.returned[1].parts[2].modelDateRange # NoText

\* ---------------------------------------------------------------------------
\* C31: in every result of parseDetailListSections no detail id occurs twice
\* in the detailPageIds of one section, and every detail id that a link of a
\* headed cell leads to is in the detailPageIds of the section of that cell,
\* whatever the other sections hold.
C31_DedupWithinNotAcross ==
    parse.fn = "parseDetailListSections" =>
        \A r \in 1..Len(parse.returned) :
           LET sections == parse.returned[r]
               cells == SelectSeq(parse.args.tds,
                                  LAMBDA td : td.heading # NoText /\ slugify(td.heading) # NoText)
           IN /\ Len(sections) = Len(cells)
              /\ \A k \in 1..Len(sections) :
                    /\ NoDuplicates(sections[k].detailPageIds)
                    /\ \A i \in 1..Len(cells[k].hrefs) :
                          DetailIdMatch(cells[k].hrefs[i]) # NoText =>
                             DetailIdMatch(cells[k].hrefs[i]) \in Range(sections[k].detailPageIds)

\* A result of three sections, each with the detail id "1", one of them from
\* a cell that links to it twice.
C31_Witness ==
    /\ parse.fn = "parseDetailListSections"
    /\ Len(parse.returned) > 0
    /\ Len(parse.returned[1]) = 3
    /\ \A k \in 1..3 : <<49>> \in Range(parse.returned[1][k].detailPageIds)
    /\ \E k \in 1..3 :
          Cardinality({i \in 1..Len(parse.args.tds[k].hrefs) : parse.args.tds[k].hrefs[i] = <<47, 49>>}) = 2

\* ---------------------------------------------------------------------------
\* C32: isSubcategoryListing(page, url) is true exactly when the page has no
\* parts table, the path of url has at least 5 segments, and an a or area
\* element of the page links to a numeric detail id under the page's own
\* subgroup segment (the fifth of the path): a path whose segment before the
\* id is that segment.
C32_ListingExactly ==
    parse.fn = "isSubcategoryListing" =>
        \A r \in 1..Len(parse.returned) :
           LET pathParts == PathParts(parse.args.url)
               underOwnSegment(href) ==
                   /\ href # NoText
                   /\ DetailIdMatch(href) # NoText
                   /\ LET linked == PathParts(CleanUrl(href, parse.args.url))
                      IN /\ Len(linked) >= 2
                         /\ linked[Len(linked)] = DetailIdMatch(href)
                         /\ linked[Len(linked) - 1] = pathParts[5]
           IN parse.returned[r] <=>
                 /\ ~parse.args.table
                 /\ Len(pathParts) >= 5
                 /\ \E i \in 1..Len(parse.args.elements) :
                       underOwnSegment(parse.args.elements[i].href)

\* C32 (second part): a page that isSubcategoryListing takes for a listing
\* page has no parts table, so processPage does not process it as a detail
\* page as well.
C32_ListingHasNoPartsTable ==
    parse.fn = "isSubcategoryListing" =>
        \A r \in 1..Len(parse.returned) : parse.returned[r] => ~parse.args.table

\* ---------------------------------------------------------------------------
\* C33: every link that parseCategoryPage returns for processPage to enqueue,
\* from an a element or from an area element, lies under the vehicle path
\* prefix of the site (the url of the page up to the end of the vehicle
\* pattern, which fixes the domain too) and does not contain "/quick/".
C33_EnqueuedLinksAreVehicleLinks ==
    parse.fn = "parseCategoryPage" =>
        \A r \in 1..Len(parse.returned) :
           LET baseUrl == parse.args.baseUrl
               prefix == SubSeq(baseUrl, 1,
                                CHOOSE e \in 1..Len(baseUrl) :
                                   /\ e >= Len(getVehicleUrlPattern)
                                   /\ SubSeq(baseUrl, e - Len(getVehicleUrlPattern) + 1, e) = getVehicleUrlPattern)
               links == parse.returned[r]
           IN \A i \in 1..Len(links) :
                 /\ StartsWith(links[i], prefix)
                 /\ ~Includes(links[i], <<47, 113, 117, 105, 99, 107, 47>>)

\* C33 for the a elements alone: a link under the vehicle path prefix is
\* returned without "/quick/" in it.
C33_AnchorLinksAreNotQuickSearch ==
    (/\ parse.fn = "parseCategoryPage"
     /\ \A i \in 1..Len(parse.args.elements) : parse.args.elements[i].tag = "a")
    => \A r \in 1..Len(parse.returned) :
          \A i \in 1..Len(parse.returned[r]) :
             ~Includes(parse.returned[r][i], <<47, 113, 117, 105, 99, 107, 47>>)

\* ---------------------------------------------------------------------------
\* A store whose index page listed the other group's listing page as its
\* category: scrapeIndex has inserted the group, marked the page pending and
\* the index page completed, and the process was killed after that.
InitResume ==
    /\ progress = markUrlCompleted(markUrlPending(markUrlPending(<<>>, IndexUrl), OtherUrl), IndexUrl)
    /\ groups = insertGroup({}, [id |-> GroupOf(OtherUrl), name |-> "12 - Body"])
    /\ subgroups = {}
    /\ diagrams = {}
    /\ parts = <<>>
    /\ nextPartId = 1
    /\ pc = "idle"
    /\ urlQueue = <<>>
    /\ diagramGroupMap = EmptyMap
    /\ cur = NoText
    /\ idx = 0
    /\ crashes = 0
    /\ failures = 0
    /\ lastFetch = NoText
    /\ runQueued = <<>>
    /\ runFrom = <<>>
    /\ runFetched = <<>>
    /\ runStart = [pending |-> {}, completed |-> {}, failed |-> {}]
    /\ repair = NoRepair
    /\ fetcher = NewFetcher
    /\ parse = NoParse
    /\ schema = CurrentSchema
    /\ tui = NoScreen

\* The commands on that store: the index page is completed, so no run reads
\* it again.
NextResume ==
    \/ ScrapeCommand
    \/ RetryCommand
    \/ Crash
    \/ Run
    \/ ScrapeIndexBegin
    \/ ProcessQueueNext
    \/ ProcessQueueFetchOk
    \/ ProcessQueueFetchFail
    \/ SubgroupSingle
    \/ SubgroupMulti
    \/ SubgroupMultiDiagram
    \/ PartsHit
    \/ PartsMissGroup
    \/ PartsMissSubgroup
    \/ PartsMissDiagram
    \/ PartsMiss
    \/ EnqueueLink
    \/ MarkCompleted
    \/ MergeReplacementParts
    \/ DownloadImages
    \/ FixSharedParts

SpecResume == InitResume /\ [][NextResume]_vars

\* A page with a parts table and no part in it, or a listing page without a
\* section.
ExtractionGap(u) ==
    \/ hasPartsTable(Site(u)) /\ parsePartsPage(Site(u), NoText).parts = <<>>
    \/ isSubcategoryListing(Site(u), u) /\ parseDetailListSections(Site(u)) = <<>>

\* The process is in processPage or about to mark its url completed.
InProcessPage ==
    pc \in {"sgSubgroup", "sgDiagram", "sgMultiSubgroup", "sgMultiDiagram", "hitParts",
            "missGroup", "missSubgroup", "missDiagram", "missParts", "links", "complete"}

\* C34: while a fetched page with a parts table and no part, or a listing
\* page without a section, is processed, no part row is written, and for the
\* listing page no diagram row and no entry of diagramGroupMap; the page is
\* never marked failed, and the step that ends its processing leaves every
\* link of the page with a status and the page completed.
C34_ExtractionGapIsTolerated ==
    [][\A u \in Urls :
          (cur = u /\ InProcessPage /\ ExtractionGap(u)) =>
             /\ parts' = parts
             /\ isSubcategoryListing(Site(u), u) =>
                   /\ diagrams' = diagrams
                   /\ diagramGroupMap' \in {diagramGroupMap, EmptyMap}
             /\ StatusIn(progress', u) # "failed"
             /\ (pc = "complete" /\ ProcessStep) =>
                   /\ StatusIn(progress', u) = "completed"
                   /\ \A i \in 1..Len(LinksOf(u)) : StatusIn(progress', LinksOf(u)[i]) # "none"]_vars

\* C34 witness: the detail page without a part and the listing page without
\* a section are completed in one run, each after its link was queued from
\* it, and the store holds no part and no diagram of the listing page.
C34_Witness ==
    /\ getUrlStatus(GapUrl) = "completed"
    /\ getUrlStatus(EmptyListUrl) = "completed"
    /\ \E i, j \in 1..Len(runQueued) :
          /\ runQueued[i] = EmptyListUrl /\ runFrom[i] = GapUrl
          /\ runQueued[j] = CrossUrl /\ runFrom[j] = EmptyListUrl
    /\ parts = <<>>
    /\ \A d \in diagrams : d.id # BasePath(EmptyListUrl)

\* ---------------------------------------------------------------------------
\* The repair script step by step.
\* fetchPage(url, retries = 3)
retries == 3

\* main: the paths with more than one diagram are selected and the loop starts.
FixStart ==
    /\ pc = "idle"
    /\ repair = NoRepair
    /\ repair' = [repair EXCEPT !.at = "loop", !.todo = PathsWithMultipleDiagrams]
    /\ UNCHANGED <<store, memory, crashes, failures, lastFetch, runQueued, runFrom, runFetched,
                   runStart, fetcher, parse, schema, tui>>

\* main, the loop: the diagrams of the next path are read and fetchPage is
\* called on its url; after the last path the script ends.
FixNextPath ==
    /\ repair.at = "loop"
    /\ IF repair.todo = <<>>
       THEN repair' = [repair EXCEPT !.at = "done", !.ran = TRUE]
       ELSE repair' = [repair EXCEPT !.at = "fetch",
                                     !.call = [attempt |-> 0, responses |-> <<>>,
                                               waits |-> <<>>, outcome |-> "running"]]
    /\ UNCHANGED <<store, memory, crashes, failures, lastFetch, runQueued, runFrom, runFetched,
                   runStart, fetcher, parse, schema, tui>>

\* Mutant: fetchPage waits and retries after every response that is not ok.
FetchPageRequest_RetryAny ==
    /\ repair.at = "fetch"
    /\ repair.call.outcome = "running"
    /\ \E status \in {0, 200, 404, 429, 503} :
          LET call == repair.call
              asked == [call EXCEPT !.responses = Append(@, status)]
          IN repair' = [repair EXCEPT !.call =
                 IF status \in 200..299 THEN [asked EXCEPT !.outcome = "returned"]
                 ELSE [asked EXCEPT !.waits = Append(@, (2 ^ (call.attempt + 1)) * 5000),
                                    !.attempt = @ + 1,
                                    !.outcome = IF call.attempt + 1 < retries
                                                THEN "running" ELSE "error"]]
    /\ UNCHANGED <<store, memory, crashes, failures, lastFetch, runQueued, runFrom, runFetched,
                   runStart, fetcher, parse, schema, tui>>

\* fetchPage, one pass of its loop: the request is answered with a status (0
\* when fetch rejects). An ok response is returned; after 429 the call waits
\* 2^(attempt + 1) * 5000 ms and goes on, and throws when that was the last
\* attempt; every other response throws.
FetchPageRequest ==
    /\ repair.at = "fetch"
    /\ repair.call.outcome = "running"
    /\ \E status \in {0, 200, 404, 429, 503} :
          LET call == repair.call
              asked == [call EXCEPT !.responses = Append(@, status)]
          IN repair' = [repair EXCEPT !.call =
                 IF status \in 200..299 THEN [asked EXCEPT !.outcome = "returned"]
                 ELSE IF status = 429
                      THEN [asked EXCEPT !.waits = Append(@, (2 ^ (call.attempt + 1)) * 5000),
                                         !.attempt = @ + 1,
                                         !.outcome = IF call.attempt + 1 < retries
                                                     THEN "running" ELSE "error"]
                      ELSE [asked EXCEPT !.outcome = "error"]]
    /\ UNCHANGED <<store, memory, crashes, failures, lastFetch, runQueued, runFrom, runFetched,
                   runStart, fetcher, parse, schema, tui>>

\* main, the rest of the loop's body: the sections of a returned page are
\* matched with the diagrams and the missing rows inserted; a thrown error
\* is caught and logged.
FixPathEnd ==
    /\ repair.at = "fetch"
    /\ repair.call.outcome \in {"returned", "error"}
    /\ LET path == Head(repair.todo)
           returned == repair.call.outcome = "returned"
           t == FixPath(PartsTable, path, returned)
       IN /\ parts' = t.rows
          /\ nextPartId' = t.next
          /\ repair' = [repair EXCEPT !.at = "loop",
                                      !.todo = Tail(@),
                                      !.fetched = IF returned THEN @ \cup {path} ELSE @]
    /\ UNCHANGED <<progress, groups, subgroups, diagrams, memory, crashes, failures, lastFetch,
                   runQueued, runFrom, runFetched, runStart, fetcher, parse, schema, tui>>

\* The script on a store with two listing paths; every request of a running
\* fetchPage call is answered.
SpecScript ==
    /\ InitRepair
    /\ [][FixStart \/ FixNextPath \/ FetchPageRequest \/ FixPathEnd]_vars
    /\ WF_vars(FetchPageRequest)

NextUninterrupted ==
    \/ ScrapeCommand
    \/ RetryCommand
    \/ Run
    \/ ScrapeIndexBegin
    \/ ScrapeIndexFetchOk
    \/ ScrapeIndexFetchFail
    \/ ScrapeIndexGroup
    \/ ScrapeIndexEnqueue
    \/ ScrapeIndexDone
    \/ ProcessQueueNext
    \/ ProcessQueueFetchOk
    \/ ProcessQueueFetchFail
    \/ SubgroupSingle
    \/ SubgroupSingleDiagram
    \/ SubgroupMulti
    \/ SubgroupMultiDiagram
    \/ PartsHit
    \/ PartsMissGroup
    \/ PartsMissSubgroup
    \/ PartsMissDiagram
    \/ PartsMiss
    \/ EnqueueLink
    \/ MarkCompleted
    \/ MergeReplacementParts
    \/ DownloadImages
    \/ FixSharedParts

\* A process that is not killed goes on: a step of the running process is
\* taken as long as one is possible.
SpecLive ==
    /\ Init
    /\ [][NextUninterrupted]_vars
    /\ WF_vars(pc # "idle" /\ NextUninterrupted)

\* The url the running process has in hand: the one taken from the queue,
\* or the index page inside scrapeIndex.
InHand(u) ==
    \/ u = cur
    \/ u = IndexUrl /\ pc \in {"indexFetch", "indexGroup", "indexEnqueue", "indexDone"}

\* C36, the invariant: in a run past its start, every url whose status is
\* pending is in the work queue or in the process's hand (it holds in runs
\* that resume after a kill as well).
C36_PendingIsQueued ==
    pc \notin {"idle", "run"} =>
        \A u \in UrlsWith("pending") : u \in Range(urlQueue) \/ InHand(u)

\* C36: in a run past its start, every url whose status is pending is in the
\* work queue or in the process's hand; a run that is not killed ends, and
\* when it ends every url with a status is completed or failed.
C36_PendingIsQueuedAndRunEnds ==
    /\ []C36_PendingIsQueued
    /\ (pc # "idle") ~> (pc = "idle")
    /\ [][(pc = "images" /\ pc' = "idle") =>
             \A k \in 1..Len(progress') : progress'[k].status \in {"completed", "failed"}]_vars

\* C36 witness: the run has ended after a failed fetch; the urls of the crawl
\* have a status, one is failed, none is pending.
C36_Witness ==
    /\ pc = "idle"
    /\ UrlsWith("pending") = {}
    /\ UrlsWith("failed") # {}
    /\ Cardinality(UrlsWith("completed")) >= 6

\* ---------------------------------------------------------------------------
\* The run started from the seed: nothing was pending when run() started and
\* the index page was not completed, so scrapeIndex fetched it.
SeedRun ==
    /\ pc \notin {"idle", "run", "scrapeIndex"}
    /\ runStart.pending = {}
    /\ IndexUrl \notin runStart.completed

\* The detail ids processSubgroupPage sets in diagramGroupMap for the page of url.
RecordedIds(url) ==
    LET sections == parseDetailListSections(Site(url))
    IN IF ~isSubcategoryListing(Site(url), url) THEN {}
       ELSE IF GroupOf(url) = NoText \/ SubgroupOf(url) = NoText THEN {}
       ELSE IF Len(sections) <= 1
            THEN (IF Len(sections) = 1 /\ sections[1].imageUrl
                  THEN Range(sections[1].detailPageIds) ELSE {})
            ELSE UNION {Range(sections[k].detailPageIds) : k \in 1..Len(sections)}

\* The page of cur is in processPartsPage's fallback branch.
InFallback == pc \in {"missGroup", "missSubgroup", "missDiagram", "missParts"}

\* The listing pages whose link loop queued cur in this run.
ListingsOfCur ==
    {runFrom[i] : i \in {j \in 1..Len(runQueued) :
                            /\ runQueued[j] = cur
                            /\ runFrom[j] # NoText
                            /\ isSubcategoryListing(Site(runFrom[j]), runFrom[j])}}

\* C37: in a run started from the seed and not killed, while a page that a
\* listing page's link loop queued is processed, the listing page was fetched
\* before it, and if the listing recorded a mapping for the page's detail id
\* the lookup is a hit: the page is not in the fallback branch.
C37_DetailAfterListingIsHit ==
    (SeedRun /\ cur # NoText /\ pc \notin {"queue", "fetch", "merge", "images"}) =>
        \A l \in ListingsOfCur :
            /\ \E i, j \in 1..Len(runFetched) :
                   i < j /\ runFetched[i] = l /\ runFetched[j] = cur
            /\ DetailOf(cur) \in RecordedIds(l) =>
                   /\ IsHit(diagramGroupMap, cur)
                   /\ ~InFallback

\* C37 witness: in a run from the seed the parts of a detail page are inserted
\* under the mapping its listing page recorded.
C37_Witness ==
    /\ SeedRun
    /\ pc = "hitParts"
    /\ \E l \in ListingsOfCur : DetailOf(cur) \in RecordedIds(l)

\* A resumed or retried run: the page a listing recorded a mapping for is in
\* the fallback branch.
C37_MissWhenResumed ==
    /\ ~SeedRun
    /\ InFallback
    /\ \E l \in Urls : DetailOf(cur) \in RecordedIds(l)

\* ---------------------------------------------------------------------------
\* The diagrams rows a parts row's diagram_id names.
DiagramsOfPart(p) == {d \in diagrams : d.id = p.diagram_id}

\* Every parts row's diagram_id is the id of a diagrams row.
C38_PartDiagramExists ==
    \A i \in 1..Len(parts) : DiagramsOfPart(parts[i]) # {}

\* C38: every parts row's diagram_id is the id of a diagrams row, and the
\* row's group_id is that diagrams row's group_id.
C38_PartGroupIsDiagramGroup ==
    \A i \in 1..Len(parts) :
        /\ DiagramsOfPart(parts[i]) # {}
        /\ \A d \in DiagramsOfPart(parts[i]) : d.group_id = parts[i].group_id

\* ---------------------------------------------------------------------------
\* C39: the replacement merge deletes a parts row only if the row's part
\* number is the replacement_part_number of a row the pass leaves in the
\* table.
C39_DeletedNumberIsKept ==
    [][(pc = "mergeInput" /\ pc' = "merged") =>
          \A i \in 1..Len(parts) :
              (\A k \in 1..Len(parts') : parts'[k].id # parts[i].id) =>
                  \E k \in 1..Len(parts') :
                      parts'[k].replacement_part_number = parts[i].part_number]_vars

====
